---------------------------- MODULE Spec2Model ----------------------------
(***************************************************************************)
(* Asynchronous search orchestration core of the recommendation backend:   *)
(* the job registry (utils/search_jobs.py), the timeline bus               *)
(* (utils/timeline.py), the search orchestrator (core/search_service.py),  *)
(* the HTTP dispatch (api/search_endpoints.py, api/admin_endpoints.py),    *)
(* the cache adapters, the payload scrubber and the refresh store.         *)
(*                                                                         *)
(* The specifications share the variables below:                           *)
(*   Spec            the application: POST /search and the background      *)
(*                   search jobs on the cooperative scheduler, with the    *)
(*                   timeline held in process memory;                      *)
(*   SpecLive        Spec with the fairness the event loop provides;       *)
(*   SpecStore       SpecLive over payload size limits around the size of  *)
(*                   a fresh response;                                     *)
(*   SpecFingerprint POST /search/init followed by POST /search;           *)
(*   SpecJobs        the job registry driven by arbitrary calls, together  *)
(*                   with GET /search/result/{hash};                       *)
(*   SpecTimeline    the timeline bus driven by arbitrary publish, read    *)
(*                   and clear calls on both backends;                     *)
(*   SpecSse         one SSE client polling the bus during publishes;      *)
(*   SpecStream      the SSE generator from one await to the next, with    *)
(*                   heartbeats and a client that may disconnect;          *)
(*   SpecStreamLive  SpecStream with every await returning;                *)
(*   SpecCatalogue   the cache lookups over a catalogue that is upserted,  *)
(*                   expired and corrupted;                                *)
(*   SpecAdmin       the admin endpoints and the catalogue calls of the    *)
(*                   search service;                                       *)
(*   SpecMemory      the in-memory cache adapter against a TTL map;        *)
(*   SpecScrubber    the payload scrubber on nested payloads;              *)
(*   SpecRefresh     the refresh-token revocation store and the bearer     *)
(*                   token dependency;                                     *)
(*   SpecRegistry    the job registry alone under arbitrary arguments;     *)
(*   SpecWrites      the catalogue writers over an adapter whose writes    *)
(*                   may raise;                                            *)
(*   SpecSlugs       the catalogue calls with slugs and queries chosen     *)
(*                   freely;                                               *)
(*   SpecConcurrent  catalogue stores interleaving at their awaits;        *)
(*   SpecResubmit    one SSE client connected across clears of its         *)
(*                   timeline;                                             *)
(*   SpecKeys        submissions over the admitted parameter range and the *)
(*                   per-request cache key.                                *)
(***************************************************************************)
EXTENDS Integers, Sequences, FiniteSets, TLC

VARIABLES
    cfg,        \* configuration read at start-up (config.py), never changed
    jobs,       \* search_jobs._jobs : query_hash -> JobRecord
    timelines,  \* timeline._in_memory_timelines : query_hash -> list of events
    streams,    \* structured-stream backend : query_hash -> stream
    cache,      \* cache adapter contents : key -> blob
    clock,      \* wall clock: milliseconds on the timeline, ticks elsewhere
    tasks,      \* background search jobs, in order of submission; in
                \* SpecConcurrent the store calls in flight
    http,       \* the last reply of a handler or of the call under study
    sse,        \* the timeline generator serving one SSE client
    reference   \* what the calls so far oblige a store to answer

vars == <<cfg, jobs, timelines, streams, cache, clock, tasks, http, sse, reference>>

(***************************************************************************)
(* Bounds of the model.                                                    *)
(***************************************************************************)
MaxTasks == 2

MaxLiveTasks == 1
MaxClock == 2
MaxPublishes == 3

None == "None"

(***************************************************************************)
(* Finite maps with a dynamic domain (Python dict).                        *)
(***************************************************************************)
EmptyMap == [k \in {} |-> None]

Put(f, k, v) == [x \in (DOMAIN f) \cup {k} |-> IF x = k THEN v ELSE f[x]]

Pop(f, k) == [x \in (DOMAIN f) \ {k} |-> f[x]]

Update(f, g) == [x \in (DOMAIN f) \cup (DOMAIN g) |-> IF x \in DOMAIN g THEN g[x] ELSE f[x]]

(***************************************************************************)
(* Text is a sequence of characters.                                       *)
(***************************************************************************)
IsSpace(c) == c = " "

Lower(c) == IF c = "A" THEN "a" ELSE IF c = "B" THEN "b" ELSE c

RECURSIVE LStrip(_)
LStrip(s) == IF s = <<>> THEN <<>>
             ELSE IF IsSpace(Head(s)) THEN LStrip(Tail(s)) ELSE s

RECURSIVE RStrip(_)
RStrip(s) == IF s = <<>> THEN <<>>
             ELSE IF IsSpace(s[Len(s)]) THEN RStrip(SubSeq(s, 1, Len(s) - 1)) ELSE s

Strip(s) == RStrip(LStrip(s))

RECURSIVE CollapseSpaces(_)
CollapseSpaces(s) ==
    IF s = <<>> THEN <<>>
    ELSE IF IsSpace(Head(s))
         THEN <<" ">> \o CollapseSpaces(LStrip(Tail(s)))
         ELSE <<Head(s)>> \o CollapseSpaces(Tail(s))

canonicalize_query(query) ==
    LET normalized == CollapseSpaces(Strip(query))
    IN  [i \in 1..Len(normalized) |-> Lower(normalized[i])]

(***************************************************************************)
(* Fingerprints, hashes and cache keys (utils/cache_utils.py).  SHA-256    *)
(* is taken to be injective: a digest is the tagged text it was computed   *)
(* from.                                                                   *)
(***************************************************************************)
sha256(text) == <<"sha256", text>>

\* a fingerprint that leaves the caller's identity out
build_query_fingerprint_without_extra(query, products_k, reviews_per_product, extra) ==
    [query |-> canonicalize_query(query),
     productsK |-> products_k,
     reviewsPerProduct |-> reviews_per_product]

build_query_fingerprint(query, products_k, reviews_per_product, extra) ==
    Update([query |-> canonicalize_query(query),
            productsK |-> products_k,
            reviewsPerProduct |-> reviews_per_product],
           extra)

build_query_hash(query, products_k, reviews_per_product, extra) ==
    sha256(build_query_fingerprint(query, products_k, reviews_per_product, extra))

build_response_cache_key(schema_version, query, products_k, reviews_per_product, extra) ==
    <<"cache:response", schema_version,
      sha256(build_query_fingerprint(query, products_k, reviews_per_product, extra))>>

CACHE_SCHEMA_VERSION == 1


(***************************************************************************)
(* Responses and payloads.  A SearchResponse is opaque to the core except  *)
(* for query and count; model_dump turns it into a mapping and             *)
(* the SearchResponse constructor validates a mapping back.              *)
(***************************************************************************)
NoResult == [kind |-> "none"]

EmptyDict == [kind |-> "empty"]

InvalidDict == [kind |-> "invalid"]

SearchResponse(query, count) == [kind |-> "response", query |-> query, count |-> count]

_dump_response(response) == [kind |-> "dict", query |-> response.query, count |-> response.count]

\* bool(mapping): None and {} are falsy
Truthy(payload) == payload.kind \notin {"none", "empty"}

\* the SearchResponse constructor accepts the mapping
Validates(payload) == payload.kind = "dict"

ParseResponse(payload) == SearchResponse(payload.query, payload.count)

serialize_payload(payload) == [enc |-> "gzip+json", data |-> payload]

CorruptBlob == [enc |-> "corrupt", data |-> NoResult]

\* gzip.decompress / json.loads succeed
Decodes(blob) == blob.enc = "gzip+json"

deserialize_payload(blob) == blob.data

\* len(blob): the gzip length is not computed; a measure in bytes that grows
\* with the query and the number of results
BlobLen(blob) ==
    IF blob.enc = "gzip+json" /\ blob.data.kind = "dict"
    THEN 1 + Len(blob.data.query) + blob.data.count
    ELSE 1

(***************************************************************************)
(* Job registry (utils/search_jobs.py).  Every mutator runs inside the     *)
(* registry lock and contains no suspension point, so it is one step.      *)
(***************************************************************************)
JobRecord(query, status, now, metadata) ==
    [query |-> query, status |-> status, created_at |-> now, updated_at |-> now,
     result |-> NoResult, error |-> None, metadata |-> metadata]

\* mark_pending that replaces the metadata of an existing record
mark_pending_replaces_metadata(js, query_hash, query, metadata, now) ==
    IF query_hash \notin DOMAIN js
    THEN Put(js, query_hash, JobRecord(query, "pending", now, metadata))
    ELSE LET record == js[query_hash]
         IN  Put(js, query_hash,
                 [record EXCEPT
                    !.query = IF query # <<>> THEN query ELSE record.query,
                    !.status = "pending",
                    !.updated_at = now,
                    !.result = NoResult,
                    !.error = None,
                    !.metadata = metadata])

mark_pending(js, query_hash, query, metadata, now) ==
    IF query_hash \notin DOMAIN js
    THEN Put(js, query_hash, JobRecord(query, "pending", now, metadata))
    ELSE LET record == js[query_hash]
         IN  Put(js, query_hash,
                 [record EXCEPT
                    !.query = IF query # <<>> THEN query ELSE record.query,
                    !.status = "pending",
                    !.updated_at = now,
                    !.result = NoResult,
                    !.error = None,
                    !.metadata = IF metadata # EmptyMap
                                 THEN Update(record.metadata, metadata)
                                 ELSE record.metadata])

\* mark_completed that forgets to clear the error of an earlier failure
mark_completed_keeps_error(js, query_hash, result, now) ==
    LET record == IF query_hash \in DOMAIN js
                  THEN js[query_hash]
                  ELSE JobRecord(<<>>, "completed", now, EmptyMap)
    IN  Put(js, query_hash,
            [record EXCEPT !.status = "completed", !.result = result,
                           !.updated_at = now])

mark_completed(js, query_hash, result, now) ==
    LET record == IF query_hash \in DOMAIN js
                  THEN js[query_hash]
                  ELSE JobRecord(<<>>, "completed", now, EmptyMap)
    IN  Put(js, query_hash,
            [record EXCEPT !.status = "completed", !.result = result,
                           !.error = None, !.updated_at = now])

\* mark_failed that drops the result of an earlier completion
mark_failed_clears_result(js, query_hash, error, now) ==
    LET record == IF query_hash \in DOMAIN js
                  THEN js[query_hash]
                  ELSE JobRecord(<<>>, "failed", now, EmptyMap)
    IN  Put(js, query_hash,
            [record EXCEPT !.status = "failed", !.error = error,
                           !.result = NoResult, !.updated_at = now])

mark_failed(js, query_hash, error, now) ==
    LET record == IF query_hash \in DOMAIN js
                  THEN js[query_hash]
                  ELSE JobRecord(<<>>, "failed", now, EmptyMap)
    IN  Put(js, query_hash,
            [record EXCEPT !.status = "failed", !.error = error, !.updated_at = now])

\* None when the hash is unknown
HasJob(js, query_hash) == query_hash \in DOMAIN js

clear_job(js, query_hash) == Pop(js, query_hash)

reset_jobs(js) == EmptyMap

(***************************************************************************)
(* GET /search/result/{query_hash} (api/search_endpoints.py).              *)
(***************************************************************************)
Envelope(query_hash, code, status, result, error) ==
    [op |-> "result", hash |-> query_hash, code |-> code, status |-> status,
     result |-> result, error |-> error]

\* metadata.get(key) or default, for integer fields
IntOr(metadata, key, default) ==
    IF key \notin DOMAIN metadata THEN default
    ELSE IF metadata[key] = 0 THEN default ELSE metadata[key]

\* the key the fallback recomputes from the job record
LoadCacheKey(query, metadata) ==
    LET products_k == IntOr(metadata, "products_k", 3)
        reviews_per_product == IntOr(metadata, "reviews_per_product", 3)
        fingerprint_extra ==
            [k \in (DOMAIN metadata) \ {"products_k", "reviews_per_product"} |-> metadata[k]]
    IN  build_response_cache_key(CACHE_SCHEMA_VERSION, query,
                                 products_k, reviews_per_product, fingerprint_extra)

\* the response found, or NoResult
_load_cached_response(config, c, query, metadata) ==
    IF ~config.ENABLE_CACHE \/ query = <<>> THEN NoResult
    ELSE LET cache_key == LoadCacheKey(query, metadata)
         IN  IF cache_key \notin DOMAIN c THEN NoResult
             ELSE IF ~Decodes(c[cache_key]) THEN NoResult
             ELSE IF ~Validates(deserialize_payload(c[cache_key])) THEN NoResult
             ELSE ParseResponse(deserialize_payload(c[cache_key]))

\* get_search_result without the per-request cache fallback
get_search_result_no_fallback(config, js, c, query_hash) ==
    IF ~HasJob(js, query_hash)
    THEN Envelope(query_hash, 404, "not_found", NoResult, None)
    ELSE LET job == js[query_hash]
         IN  IF job.status = "pending"
             THEN Envelope(query_hash, 202, "pending", NoResult, None)
             ELSE IF job.status = "failed"
             THEN Envelope(query_hash, 200, "failed", NoResult, job.error)
             ELSE IF Truthy(job.result) /\ Validates(job.result)
             THEN Envelope(query_hash, 200, "completed", ParseResponse(job.result), None)
             ELSE Envelope(query_hash, 500, "failed", NoResult, "Result unavailable")

get_search_result(config, js, c, query_hash) ==
    IF ~HasJob(js, query_hash)
    THEN Envelope(query_hash, 404, "not_found", NoResult, None)
    ELSE LET job == js[query_hash]
         IN  IF job.status = "pending"
             THEN Envelope(query_hash, 202, "pending", NoResult, None)
             ELSE IF job.status = "failed"
             THEN Envelope(query_hash, 200, "failed", NoResult, job.error)
             ELSE LET response_model ==
                          IF Truthy(job.result) /\ Validates(job.result)
                          THEN ParseResponse(job.result)
                          ELSE _load_cached_response(config, c, job.query, job.metadata)
                  IN  IF response_model = NoResult
                      THEN Envelope(query_hash, 500, "failed", NoResult, "Result unavailable")
                      ELSE Envelope(query_hash, 200, "completed", response_model, None)

(***************************************************************************)
(* Timeline bus (utils/timeline.py).  A stream id is the text              *)
(* "<millis>-<seq>", kept as the three pieces the text is made of.         *)
(***************************************************************************)
FormatStreamId(millis, sequence) == <<millis, "-", sequence>>

\* ids that do not split into two integers sort first
_parse_stream_id(stream_id) ==
    IF Len(stream_id) = 3 /\ stream_id[2] = "-"
    THEN <<stream_id[1], stream_id[3]>>
    ELSE <<0, 0>>

\* tuple comparison of (millis, seq)
TupleGreater(a, b) == a[1] > b[1] \/ (a[1] = b[1] /\ a[2] > b[2])

\* _in_memory_timelines.get(query_hash, [])
EventsOf(tl, query_hash) == IF query_hash \in DOMAIN tl THEN tl[query_hash] ELSE <<>>

\* events[-count:]
LastCount(events, count) ==
    IF Len(events) <= count THEN events
    ELSE SubSeq(events, Len(events) - count + 1, Len(events))

\* the first count entries, as XREAD COUNT returns them
FirstCount(events, count) ==
    IF Len(events) <= count THEN events ELSE SubSeq(events, 1, count)

\* the part of an event's payload that names where a response came from
\* ("source") or why the per-request cache was not used ("reason")
Payload(source, reason) == [source |-> source, reason |-> reason]

NoPayload == Payload(None, None)

\* base_event: event_id, step and payload, with the publishing job and
\* whether that job had finished mark_completed when it published (both are
\* history variables)
BaseEvent(event_id, step, payload, task, hooked) ==
    [event_id |-> event_id, step |-> step, payload |-> payload, task |-> task,
     hooked |-> hooked]

WithIds(base, stream_id, sequence) ==
    [event_id |-> base.event_id, step |-> base.step, payload |-> base.payload,
     task |-> base.task, hooked |-> base.hooked,
     stream_id |-> stream_id, sequence |-> sequence]

_write_in_memory(tl, query_hash, base, now) ==
    LET events == EventsOf(tl, query_hash)
        sequence == Len(events) + 1
        stream_id == FormatStreamId(now, sequence)
    IN  Put(tl, query_hash, Append(events, WithIds(base, stream_id, sequence)))

clear_in_memory_timelines(tl, query_hash) == Pop(tl, query_hash)

\* read_timeline_events with the filter "not older than last_id"
ReadInMemory_inclusive(tl, query_hash, last_id, count) ==
    LET events == EventsOf(tl, query_hash)
    IN  IF last_id = <<>>
        THEN LastCount(events, count)
        ELSE LET last_tuple == _parse_stream_id(last_id)
                 filtered == SelectSeq(events,
                                 LAMBDA e : ~TupleGreater(last_tuple, _parse_stream_id(e.stream_id)))
             IN  LastCount(filtered, count)

\* the in-memory branch of read_timeline_events
ReadInMemory(tl, query_hash, last_id, count) ==
    LET events == EventsOf(tl, query_hash)
    IN  IF last_id = <<>>
        THEN LastCount(events, count)
        ELSE LET last_tuple == _parse_stream_id(last_id)
                 filtered == SelectSeq(events,
                                 LAMBDA e : TupleGreater(_parse_stream_id(e.stream_id), last_tuple))
             IN  LastCount(filtered, count)

(***************************************************************************)
(* Precomputed and canonical catalogue (core/search_service.py).           *)
(***************************************************************************)
build_precomputed_query_key(query) ==
    <<"guest:precomputed:query", sha256(canonicalize_query(query))>>

build_precomputed_payload_key(slug) == <<"guest:precomputed", slug>>

build_precomputed_index_key == <<"guest:precomputed:index">>

build_canonical_query_key(query) ==
    <<"guest:canonical:query", sha256(canonicalize_query(query))>>

build_canonical_payload_key(slug) == <<"guest:canonical", slug>>

build_canonical_index_key == <<"guest:canonical:index">>

NoBlob == [enc |-> "none"]

\* slug.encode("utf-8")
SlugBlob(slug) == [enc |-> "utf8", text |-> slug]

CacheError == "cache error"

DecodeError == "decode error"

\* _cache_get_bytes; failed: the adapter raises on this call
_cache_get_bytes(config, c, key, failed) ==
    IF failed
    THEN IF config.CACHE_FAIL_OPEN
         THEN [st |-> "ok", blob |-> NoBlob]
         ELSE [st |-> "raise", blob |-> NoBlob]
    ELSE [st |-> "ok", blob |-> IF key \in DOMAIN c THEN c[key] ELSE NoBlob]

Lookup(kind, response, error) == [kind |-> kind, response |-> response, error |-> error]

\* the precomputed tier of get_precomputed_response
PrecomputedTier(config, c, query, fails) ==
    LET slug_get == _cache_get_bytes(config, c, build_precomputed_query_key(query),
                                     "precomputed-index" \in fails)
    IN  IF slug_get.st = "raise" THEN Lookup("raise", NoResult, CacheError)
        ELSE IF slug_get.blob.enc = "none" THEN Lookup("miss", NoResult, None)
        \* slug_blob.decode("utf-8") stands outside any try
        ELSE IF slug_get.blob.enc # "utf8" THEN Lookup("raise", NoResult, DecodeError)
        ELSE IF slug_get.blob.text = "" THEN Lookup("miss", NoResult, None)
        ELSE LET payload_get ==
                     _cache_get_bytes(config, c,
                                      build_precomputed_payload_key(slug_get.blob.text),
                                      "precomputed-fetch" \in fails)
             IN  IF payload_get.st = "raise" THEN Lookup("raise", NoResult, CacheError)
                 ELSE IF payload_get.blob.enc = "none" THEN Lookup("miss", NoResult, None)
                 ELSE IF Decodes(payload_get.blob)
                         /\ Validates(deserialize_payload(payload_get.blob))
                 THEN Lookup("hit", ParseResponse(deserialize_payload(payload_get.blob)), None)
                 ELSE IF config.CACHE_FAIL_OPEN THEN Lookup("miss", NoResult, None)
                 ELSE Lookup("raise", NoResult, DecodeError)

\* a lookup that consults the precomputed tier only
get_precomputed_response_skips_canonical(config, c, query, fails) ==
    IF ~config.ENABLE_CACHE THEN Lookup("miss", NoResult, None)
    ELSE PrecomputedTier(config, c, query, fails)

\* fails: the lookups on which the adapter raises
get_precomputed_response(config, c, query, fails) ==
    IF ~config.ENABLE_CACHE THEN Lookup("miss", NoResult, None)
    ELSE LET slug_get == _cache_get_bytes(config, c, build_canonical_query_key(query),
                                          "canonical-index" \in fails)
         IN  IF slug_get.st = "raise" THEN Lookup("raise", NoResult, CacheError)
             ELSE IF slug_get.blob.enc = "none" THEN PrecomputedTier(config, c, query, fails)
             ELSE IF slug_get.blob.enc # "utf8"
             THEN IF config.CACHE_FAIL_OPEN THEN PrecomputedTier(config, c, query, fails)
                  ELSE Lookup("raise", NoResult, DecodeError)
             ELSE IF slug_get.blob.text = "" THEN PrecomputedTier(config, c, query, fails)
             ELSE LET payload_get ==
                          _cache_get_bytes(config, c,
                                           build_canonical_payload_key(slug_get.blob.text),
                                           "canonical-fetch" \in fails)
                  IN  IF payload_get.st = "raise" THEN Lookup("raise", NoResult, CacheError)
                      ELSE IF payload_get.blob.enc = "none"
                      THEN PrecomputedTier(config, c, query, fails)
                      ELSE IF Decodes(payload_get.blob)
                              /\ Validates(deserialize_payload(payload_get.blob))
                      THEN Lookup("hit", ParseResponse(deserialize_payload(payload_get.blob)), None)
                      ELSE IF config.CACHE_FAIL_OPEN
                      THEN PrecomputedTier(config, c, query, fails)
                      ELSE Lookup("raise", NoResult, DecodeError)

\* _load_precomputed_index / _load_canonical_index
LoadIndex(c, index_key) ==
    IF index_key \in DOMAIN c /\ Decodes(c[index_key])
    THEN LET payload == deserialize_payload(c[index_key])
         IN  [slug \in {x \in DOMAIN payload : payload[x].query # <<>>} |-> payload[slug]]
    ELSE EmptyMap

\* a store that leaves a payload already held for the slug in place
store_precomputed_response_keeps_payload(c, slug, query, response) ==
    LET canonical_query == canonicalize_query(query)
        slug_key == build_precomputed_query_key(canonical_query)
        c1 == IF build_precomputed_payload_key(slug) \in DOMAIN c THEN c
              ELSE Put(c, build_precomputed_payload_key(slug),
                       serialize_payload(_dump_response(response)))
        c2 == Put(c1, slug_key, SlugBlob(slug))
        index == Put(LoadIndex(c2, build_precomputed_index_key), slug,
                     [query |-> canonical_query, hash |-> slug_key])
    IN  Put(c2, build_precomputed_index_key, serialize_payload(index))

\* store_precomputed_response, every adapter call succeeding
store_precomputed_response(c, slug, query, response) ==
    LET canonical_query == canonicalize_query(query)
        slug_key == build_precomputed_query_key(canonical_query)
        c1 == Put(c, build_precomputed_payload_key(slug),
                  serialize_payload(_dump_response(response)))
        c2 == Put(c1, slug_key, SlugBlob(slug))
        index == Put(LoadIndex(c2, build_precomputed_index_key), slug,
                     [query |-> canonical_query, hash |-> slug_key])
    IN  Put(c2, build_precomputed_index_key, serialize_payload(index))

\* store_canonical_response, every adapter call succeeding
store_canonical_response(c, slug, query, response) ==
    LET canonical_query == canonicalize_query(query)
        canonical_slug_key == build_canonical_query_key(canonical_query)
        c1 == Put(c, build_canonical_payload_key(slug),
                  serialize_payload(_dump_response(response)))
        c2 == Put(c1, canonical_slug_key, SlugBlob(slug))
        index == Put(LoadIndex(c2, build_canonical_index_key), slug,
                     [query |-> canonical_query, hash |-> canonical_slug_key])
    IN  Put(c2, build_canonical_index_key, serialize_payload(index))

Removal(removed, c) == [removed |-> removed, c |-> c]

\* a delete that leaves the canonical tier in place
delete_precomputed_response_ttl_tier_only(config, c, slug, query) ==
    IF ~config.ENABLE_CACHE THEN Removal(FALSE, c)
    ELSE LET index == LoadIndex(c, build_precomputed_index_key)
             canonical_query ==
                 IF query # <<>> THEN canonicalize_query(query)
                 ELSE IF slug \in DOMAIN index THEN index[slug].query
                 ELSE <<>>
             c1 == Pop(c, build_precomputed_payload_key(slug))
             c2 == IF canonical_query # <<>>
                   THEN Pop(c1, build_precomputed_query_key(canonical_query))
                   ELSE c1
         IN  Removal(TRUE,
                     IF slug \in DOMAIN index
                     THEN Put(c2, build_precomputed_index_key,
                              serialize_payload(Pop(index, slug)))
                     ELSE c2)

\* delete_precomputed_response, every adapter call succeeding; query <<>>
\* stands for an absent or empty query argument
delete_precomputed_response(config, c, slug, query) ==
    IF ~config.ENABLE_CACHE THEN Removal(FALSE, c)
    ELSE LET index == LoadIndex(c, build_precomputed_index_key)
             canonical_index == LoadIndex(c, build_canonical_index_key)
             canonical_query ==
                 IF query # <<>> THEN canonicalize_query(query)
                 ELSE IF slug \in DOMAIN canonical_index THEN canonical_index[slug].query
                 ELSE IF slug \in DOMAIN index THEN index[slug].query
                 ELSE <<>>
             c1 == Pop(c, build_precomputed_payload_key(slug))
             c2 == IF canonical_query # <<>>
                   THEN Pop(Pop(c1, build_precomputed_query_key(canonical_query)),
                            build_canonical_query_key(canonical_query))
                   ELSE c1
             c3 == Pop(c2, build_canonical_payload_key(slug))
             c4 == IF slug \in DOMAIN index
                   THEN Put(c3, build_precomputed_index_key,
                            serialize_payload(Pop(index, slug)))
                   ELSE c3
         IN  Removal(TRUE,
                     IF slug \in DOMAIN canonical_index
                     THEN Put(c4, build_canonical_index_key,
                              serialize_payload(Pop(canonical_index, slug)))
                     ELSE c4)

list_precomputed_responses(config, c) ==
    IF ~config.ENABLE_CACHE THEN EmptyMap
    ELSE Update(LoadIndex(c, build_precomputed_index_key),
                LoadIndex(c, build_canonical_index_key))

\* _get_cached_response; failed: the adapter raises
_get_cached_response(config, c, cache_key, failed) ==
    IF ~config.ENABLE_CACHE THEN Lookup("miss", NoResult, None)
    ELSE IF failed
    THEN IF config.CACHE_FAIL_OPEN THEN Lookup("miss", NoResult, None)
         ELSE Lookup("raise", NoResult, CacheError)
    ELSE IF cache_key \notin DOMAIN c THEN Lookup("miss", NoResult, None)
    ELSE IF Decodes(c[cache_key]) /\ Validates(deserialize_payload(c[cache_key]))
    THEN Lookup("hit", ParseResponse(deserialize_payload(c[cache_key])), None)
    ELSE IF config.CACHE_FAIL_OPEN THEN Lookup("miss", NoResult, None)
    ELSE Lookup("raise", NoResult, DecodeError)

StoreOutcome(stored, raised, c) == [stored |-> stored, raised |-> raised, c |-> c]

\* SearchService.__init__: max_payload_bytes
max_payload_bytes(config) ==
    IF config.CACHE_MAX_PAYLOAD_BYTES > 1 THEN config.CACHE_MAX_PAYLOAD_BYTES ELSE 1

\* a store that also skips a blob exactly at the limit
_store_cached_response_below_limit(config, c, cache_key, response, failed) ==
    IF ~config.ENABLE_CACHE THEN StoreOutcome(FALSE, FALSE, c)
    ELSE IF BlobLen(serialize_payload(_dump_response(response))) >= max_payload_bytes(config)
    THEN StoreOutcome(FALSE, FALSE, c)
    ELSE IF failed
    THEN StoreOutcome(FALSE, ~config.CACHE_FAIL_OPEN, c)
    ELSE StoreOutcome(TRUE, FALSE,
                      Put(c, cache_key, serialize_payload(_dump_response(response))))

\* _store_cached_response; failed: the adapter raises on set
_store_cached_response(config, c, cache_key, response, failed) ==
    IF ~config.ENABLE_CACHE THEN StoreOutcome(FALSE, FALSE, c)
    ELSE IF BlobLen(serialize_payload(_dump_response(response))) > max_payload_bytes(config)
    THEN StoreOutcome(FALSE, FALSE, c)
    ELSE IF failed
    THEN StoreOutcome(FALSE, ~config.CACHE_FAIL_OPEN, c)
    ELSE StoreOutcome(TRUE, FALSE,
                      Put(c, cache_key, serialize_payload(_dump_response(response))))

(***************************************************************************)
(* Requests.  An authenticated caller always has a non-empty subject       *)
(* (auth/dependencies.py), so fingerprint_extra always carries it.         *)
(***************************************************************************)
Request(query, products_k, reviews_per_product, guest, subject, query_hash, bypass_cache) ==
    [query |-> query, products_k |-> products_k,
     reviews_per_product |-> reviews_per_product,
     guest |-> guest, subject |-> subject,
     query_hash |-> query_hash, bypass_cache |-> bypass_cache]

\* submit_search: fingerprint_extra
FingerprintExtra(req) == [guest |-> req.guest, subject |-> req.subject]

\* submit_search: computed_hash
ComputedHash(req) ==
    build_query_hash(req.query, req.products_k, req.reviews_per_product, FingerprintExtra(req))

\* submit_search: the metadata handed to mark_pending
JobMetadata(req) ==
    [products_k |-> req.products_k, reviews_per_product |-> req.reviews_per_product,
     guest |-> req.guest, subject |-> req.subject]

\* search_products: cache_key
ResponseCacheKey(req) ==
    build_response_cache_key(CACHE_SCHEMA_VERSION, req.query, req.products_k,
                             req.reviews_per_product, FingerprintExtra(req))

\* the response the engine and the analysis pipeline build for a query
BuiltResponse(query) == SearchResponse(query, 1)

CACHE_MAX_PAYLOAD_BYTES == 1048576

Config(enable_cache, fail_open, guest_hashed, adapter) ==
    [ENABLE_CACHE |-> enable_cache, CACHE_FAIL_OPEN |-> fail_open,
     ENABLE_GUEST_HASHED_QUERIES |-> guest_hashed, adapter |-> adapter,
     CACHE_MAX_PAYLOAD_BYTES |-> CACHE_MAX_PAYLOAD_BYTES]

NoHttp == [op |-> "none"]

\* no SSE client is connected
NoSse == [open |-> FALSE]

Tick ==
    /\ clock < MaxClock
    /\ clock' = clock + 1
    /\ UNCHANGED <<cfg, jobs, timelines, streams, cache, tasks, http, sse, reference>>

(***************************************************************************)
(* POST /search (api/search_endpoints.py, submit_search).  With the        *)
(* timeline in process memory the handler has no suspension point between  *)
(* its admission checks and add_task, so it is one step.                   *)
(***************************************************************************)
GuestBlocked(config, req) == req.guest /\ ~config.ENABLE_GUEST_HASHED_QUERIES

HashMismatch(req) == req.query_hash # <<>> /\ req.query_hash # ComputedHash(req)

Submission(code, query_hash, js, tl) ==
    [code |-> code, query_hash |-> query_hash, js |-> js, tl |-> tl]

\* submit_search that registers the job before it validates the supplied hash
submit_search_registers_first(config, js, tl, req, now) ==
    IF GuestBlocked(config, req) THEN Submission(403, <<>>, js, tl)
    ELSE LET query_hash == IF req.query_hash # <<>> THEN req.query_hash ELSE ComputedHash(req)
             pending == mark_pending(js, query_hash, req.query, JobMetadata(req), now)
         IN  IF HashMismatch(req) THEN Submission(400, <<>>, pending, tl)
             ELSE Submission(202, query_hash, pending,
                             clear_in_memory_timelines(tl, query_hash))

\* submit_search that spawns the job without clearing the timeline
submit_search_keeps_timeline(config, js, tl, req, now) ==
    IF GuestBlocked(config, req) THEN Submission(403, <<>>, js, tl)
    ELSE IF HashMismatch(req) THEN Submission(400, <<>>, js, tl)
    ELSE LET query_hash == IF req.query_hash # <<>> THEN req.query_hash ELSE ComputedHash(req)
         IN  Submission(202, query_hash,
                        mark_pending(js, query_hash, req.query, JobMetadata(req), now), tl)

submit_search(config, js, tl, req, now) ==
    IF GuestBlocked(config, req) THEN Submission(403, <<>>, js, tl)
    ELSE IF HashMismatch(req) THEN Submission(400, <<>>, js, tl)
    ELSE LET query_hash == IF req.query_hash # <<>> THEN req.query_hash ELSE ComputedHash(req)
         IN  Submission(202, query_hash,
                        mark_pending(js, query_hash, req.query, JobMetadata(req), now),
                        clear_in_memory_timelines(tl, query_hash))

(***************************************************************************)
(* Background search job (_execute_search_job and                          *)
(* SearchService.search_products).  A job runs without suspension between  *)
(* two awaits of the engine or of the analysis pipeline; each such stretch *)
(* is the list of registry and timeline operations it performs, in program *)
(* order.  An adapter reply is processed in the step that issues the call. *)
(***************************************************************************)
EmitWith(step, payload) == [op |-> "emit", step |-> step, payload |-> payload]

EmitOp(step) == EmitWith(step, NoPayload)

CompletedOp(result) == [op |-> "mark_completed", result |-> result]

FailedOp(error) == [op |-> "mark_failed", error |-> error]

\* a precomputed branch that reports the per-request cache as the source
PrecomputedHitOps_cache_source(precomputed) ==
    <<EmitWith("response.cached", Payload("precomputed", None)),
      CompletedOp(_dump_response(precomputed)),
      EmitWith("response.completed", Payload("cache", None))>>

\* _execute_search_job, precomputed branch
PrecomputedHitOps(precomputed) ==
    <<EmitWith("response.cached", Payload("precomputed", None)),
      CompletedOp(_dump_response(precomputed)),
      EmitWith("response.completed", Payload("precomputed", None))>>

\* a cache hit that also announces the engine
CacheHitOps_starts_engine(cached) ==
    <<EmitOp("search.cache.hit"), EmitOp("search.engine.started"),
      CompletedOp(_dump_response(cached)),
      EmitWith("response.completed", Payload("cache", None))>>

\* search_products, per-request cache hit, with finalize as the hook
CacheHitOps(cached) ==
    <<EmitOp("search.cache.hit"),
      CompletedOp(_dump_response(cached)),
      EmitWith("response.completed", Payload("cache", None))>>

\* a miss reason that ignores bypass_cache when the cache is off
MissReason_disabled_first(config, req) ==
    IF ~config.ENABLE_CACHE THEN "disabled"
    ELSE IF req.bypass_cache THEN "bypass" ELSE "not_found"

\* search_products: miss_reason
MissReason(config, req) ==
    IF config.ENABLE_CACHE /\ ~req.bypass_cache THEN "not_found"
    ELSE IF req.bypass_cache THEN "bypass" ELSE "disabled"

\* search_products up to the call of the engine
CacheMissOps(miss_reason) ==
    <<EmitWith("search.cache.miss", Payload(None, miss_reason)),
      EmitOp("search.engine.started")>>

\* search_products announcing the pipeline before the engine's candidates
EngineDoneOps_pipeline_first ==
    <<EmitOp("search.bq.started"), EmitOp("search.bq.completed"),
      EmitOp("search.reviews.selected"),
      EmitOp("rag.pipeline.started"), EmitOp("search.engine.candidates")>>

\* hybrid_search from the embedding to its return, then search_products up
\* to the call of the analysis pipeline
EngineDoneOps ==
    <<EmitOp("search.bq.started"), EmitOp("search.bq.completed"),
      EmitOp("search.reviews.selected"),
      EmitOp("search.engine.candidates"), EmitOp("rag.pipeline.started")>>

\* the analysis pipeline's event for the one product, then search_products
AnalysisDoneOps == <<EmitOp("rag.product.analysis"), EmitOp("rag.pipeline.completed")>>

\* search_products publishing response.completed before it runs the hook
FreshCompletionOps_announces_first(cached_stored, response) ==
    (IF cached_stored THEN <<EmitOp("response.cached")>> ELSE <<>>)
        \o <<EmitWith("response.completed", Payload("search", None)),
              CompletedOp(_dump_response(response))>>

\* search_products after _store_cached_response, with finalize as the hook
FreshCompletionOps(cached_stored, response) ==
    (IF cached_stored THEN <<EmitOp("response.cached")>> ELSE <<>>)
        \o <<CompletedOp(_dump_response(response)),
              EmitWith("response.completed", Payload("search", None))>>

\* an except branch that records a fixed text instead of str(exc)
HandlerOps_fixed_text(exc) == <<FailedOp("Search failed")>>

\* _execute_search_job, except branch: mark_failed(str(exc))
HandlerOps(exc) == <<FailedOp(exc)>>

\* one operation of a job on the registry and the timeline; marked and
\* announced record what the job has done so far
RunOp(ctx, o, task, query_hash, now) ==
    CASE o.op = "emit" ->
           [ctx EXCEPT
              !.tl = _write_in_memory(@, query_hash,
                                      BaseEvent(<<task, o.step>>, o.step, o.payload, task,
                                                ctx.marked),
                                      now),
              !.announced = @ \/ o.step = "response.completed"]
      [] o.op = "mark_completed" ->
           [ctx EXCEPT !.js = mark_completed(@, query_hash, o.result, now),
                       !.marked = TRUE]
      [] o.op = "mark_failed" ->
           [ctx EXCEPT !.js = mark_failed(@, query_hash, o.error, now)]

\* the operations in order, each applied to the outcome of the one before
RECURSIVE RunOps(_, _, _, _, _)
RunOps(ctx, ops, task, query_hash, now) ==
    IF Len(ops) = 0 THEN ctx
    ELSE CHOOSE result \in {RunOps(next, Tail(ops), task, query_hash, now) :
                               next \in {RunOp(ctx, Head(ops), task, query_hash, now)}} : TRUE

\* the job reads payload.query_hash or the computed hash: query_hash either way
NewTask(req, query_hash) ==
    [pc |-> "start", req |-> [req EXCEPT !.query_hash = query_hash],
     hash |-> query_hash, path |-> "none",
     marked |-> FALSE, announced |-> FALSE, raised |-> None]

\* what one stretch of a job does: the operations it performs, where the
\* job stands afterwards, the path it is on, the exception it ended with
\* and the cache it leaves
Stretch(ops, pc, path, exc, c) == [ops |-> ops, pc |-> pc, path |-> path, exc |-> exc, c |-> c]

\* a job whose exception escapes without reaching an except branch
Raise_escapes(ops, path, exc, c) == Stretch(ops, "done", path, exc, c)

\* an exception reaches the except branch of _execute_search_job
Raise(ops, path, exc, c) == Stretch(ops \o HandlerOps(exc), "done", path, exc, c)

\* search_products: the per-request lookup, skipped when the cache is off or
\* bypassed
CachedLookup(config, c, req, get_failed) ==
    IF config.ENABLE_CACHE /\ ~req.bypass_cache
    THEN _get_cached_response(config, c, ResponseCacheKey(req), get_failed)
    ELSE Lookup("miss", NoResult, None)

\* _execute_search_job from its start to the first await of the engine,
\* given what the catalogue lookup and the per-request lookup yield
BeginStretch(config, req, precomputed, cached, c) ==
    IF precomputed.kind = "raise" THEN Raise(<<>>, "none", precomputed.error, c)
    ELSE IF precomputed.kind = "hit" /\ ~req.bypass_cache
    THEN Stretch(PrecomputedHitOps(precomputed.response), "done", "precomputed", None, c)
    ELSE IF cached.kind = "raise" THEN Raise(<<>>, "none", cached.error, c)
    ELSE IF cached.kind = "hit"
    THEN Stretch(CacheHitOps(cached.response), "done", "cache", None, c)
    ELSE IF Strip(req.query) = <<>>
    THEN Raise(CacheMissOps(MissReason(config, req)), "fresh", "Query cannot be empty", c)
    ELSE Stretch(CacheMissOps(MissReason(config, req)), "engine", "fresh", None, c)

\* the engine's embedding and warehouse query are awaited back to back and
\* the job touches no registry entry between them: one stretch
EngineStretch(c, ok) ==
    IF ok THEN Stretch(EngineDoneOps, "analysis", "fresh", None, c)
    ELSE Raise(<<>>, "fresh", "engine failed", c)

\* search_products: _build_response, then _store_cached_response
StoreFresh(config, c, req, set_failed) ==
    _store_cached_response(config, c, ResponseCacheKey(req), BuiltResponse(req.query),
                           set_failed)

\* search_products calling the before-completion hook ahead of the store
AnalysisStretch_hook_before_store(req, ok, store, c) ==
    IF ~ok THEN Raise(<<>>, "fresh", "analysis failed", c)
    ELSE IF store.raised
    THEN Raise(AnalysisDoneOps \o <<CompletedOp(_dump_response(BuiltResponse(req.query)))>>,
               "fresh", CacheError, c)
    ELSE Stretch(AnalysisDoneOps \o FreshCompletionOps(store.stored, BuiltResponse(req.query)),
                 "done", "fresh", None, store.c)

\* search_products from the return of the analysis pipeline to its end,
\* given what the store yields
AnalysisStretch(req, ok, store, c) ==
    IF ~ok THEN Raise(<<>>, "fresh", "analysis failed", c)
    ELSE IF store.raised THEN Raise(AnalysisDoneOps, "fresh", CacheError, c)
    ELSE Stretch(AnalysisDoneOps \o FreshCompletionOps(store.stored, BuiltResponse(req.query)),
                 "done", "fresh", None, store.c)

\* job t runs the stretch
Advance(t, todo) ==
    \E stretch \in {todo} :
    \E ctx \in {RunOps([tl |-> timelines, js |-> jobs,
                        marked |-> tasks[t].marked, announced |-> tasks[t].announced],
                       stretch.ops, t, tasks[t].hash, clock)} :
        /\ timelines' = ctx.tl
        /\ jobs' = ctx.js
        /\ cache' = stretch.c
        /\ tasks' = [tasks EXCEPT ![t] = [@ EXCEPT !.pc = stretch.pc,
                                                   !.path = stretch.path,
                                                   !.marked = ctx.marked,
                                                   !.announced = ctx.announced,
                                                   !.raised = stretch.exc]]
        /\ UNCHANGED <<cfg, streams, clock, http, sse, reference>>

\* the adapter can raise only when it is remote
AdapterFaults(config) ==
    IF config.ENABLE_CACHE /\ config.adapter = "kv" THEN BOOLEAN ELSE {FALSE}

LookupFaults(config) ==
    IF config.ENABLE_CACHE /\ config.adapter = "kv"
    THEN SUBSET {"canonical-index", "canonical-fetch", "precomputed-index", "precomputed-fetch"}
    ELSE {{}}

\* limit bounds the number of accepted submissions of a run
Submit(req, limit) ==
    \E sub \in {submit_search(cfg, jobs, timelines, req, clock)} :
        /\ sub.code = 202 => Len(tasks) < limit
        /\ jobs' = sub.js
        /\ timelines' = sub.tl
        /\ tasks' = IF sub.code = 202 THEN Append(tasks, NewTask(req, sub.query_hash)) ELSE tasks
        /\ http' = [op |-> "submit", code |-> sub.code]
        /\ UNCHANGED <<cfg, streams, cache, clock, sse, reference>>

SubmitSearch(req) == Submit(req, MaxTasks)

JobBegin(t) ==
    /\ tasks[t].pc = "start"
    /\ \E precomputed \in {get_precomputed_response(cfg, cache, tasks[t].req.query, fails) :
                              fails \in LookupFaults(cfg)},
          cached \in {CachedLookup(cfg, cache, tasks[t].req, get_failed) :
                         get_failed \in AdapterFaults(cfg)} :
         Advance(t, BeginStretch(cfg, tasks[t].req, precomputed, cached, cache))

\* JobBegin when the adapter raises on the lookups in fails and, if
\* get_failed, on the per-request get
JobBeginWith(t, fails, get_failed) ==
    /\ tasks[t].pc = "start"
    /\ Advance(t, BeginStretch(cfg, tasks[t].req,
                               get_precomputed_response(cfg, cache, tasks[t].req.query, fails),
                               CachedLookup(cfg, cache, tasks[t].req, get_failed),
                               cache))

JobEngineDone(t) ==
    /\ tasks[t].pc = "engine"
    /\ \E ok \in BOOLEAN : Advance(t, EngineStretch(cache, ok))

JobAnalysisDone(t) ==
    /\ tasks[t].pc = "analysis"
    /\ \E ok \in BOOLEAN,
          store \in {StoreFresh(cfg, cache, tasks[t].req, set_failed) :
                        set_failed \in AdapterFaults(cfg)} :
         Advance(t, AnalysisStretch(tasks[t].req, ok, store, cache))

\* JobAnalysisDone when the pipeline returns and the adapter's set raises
\* or not
JobAnalysisDoneWith(t, set_failed) ==
    /\ tasks[t].pc = "analysis"
    /\ Advance(t, AnalysisStretch(tasks[t].req, TRUE,
                                  StoreFresh(cfg, cache, tasks[t].req, set_failed), cache))

(***************************************************************************)
(* Spec: the application.  Time does not advance: timestamps play no part  *)
(* in admission or orchestration.                                          *)
(***************************************************************************)
\* cache off; remote cache failing open; remote cache failing closed
SpecConfigs ==
    {Config(FALSE, TRUE, FALSE, "kv")} \cup {Config(TRUE, f, FALSE, "kv") : f \in BOOLEAN}

UserRequest == Request(<<"a">>, 3, 3, FALSE, "u1", <<>>, FALSE)

GuestRequest == Request(<<"a">>, 3, 3, TRUE, "g1", <<>>, FALSE)

\* a caller's request without a hash, with its own hash, with another hash;
\* a guest's request; the caller's request bypassing the caches
SpecRequests ==
    {[UserRequest EXCEPT !.query_hash = x] :
        x \in {<<>>, ComputedHash(UserRequest), ComputedHash(GuestRequest)}}
        \cup {GuestRequest, [UserRequest EXCEPT !.bypass_cache = TRUE]}

\* the store: empty, or after an admin upsert for the query; with the cache
\* switched off it still holds the upsert and a per-request entry written
\* while the cache was on
SpecCaches(config) ==
    IF ~config.ENABLE_CACHE
    THEN {StoreFresh(Config(TRUE, TRUE, FALSE, "kv"),
                     store_precomputed_response(EmptyMap, "s1", <<"A", " ">>,
                                                BuiltResponse(<<"a">>)),
                     UserRequest, FALSE).c}
    ELSE {store_precomputed_response(EmptyMap, "s1", <<"A", " ">>, BuiltResponse(<<"a">>))}
             \cup (IF config.CACHE_FAIL_OPEN THEN {} ELSE {EmptyMap})

Init ==
    /\ cfg \in SpecConfigs
    /\ jobs = EmptyMap
    /\ timelines = EmptyMap
    /\ streams = EmptyMap
    /\ cache \in SpecCaches(cfg)
    /\ clock = 1
    /\ tasks = <<>>
    /\ http = NoHttp
    /\ sse = NoSse
    /\ reference = EmptyMap

Next ==
    \/ \E req \in SpecRequests : SubmitSearch(req)
    \/ \E t \in DOMAIN tasks : JobBegin(t)
    \/ \E t \in DOMAIN tasks : JobEngineDone(t)
    \/ \E t \in DOMAIN tasks : JobAnalysisDone(t)

Spec == Init /\ [][Next]_vars

(***************************************************************************)
(* SpecLive: the application with every started job step eventually        *)
(* taken: the engine, the analysis pipeline and the cache return or raise. *)
(***************************************************************************)
SubmitSearchLive(req) == Submit(req, MaxLiveTasks)

\* the requests of Spec, and one that bypasses the caches
LiveRequests == SpecRequests \cup {[UserRequest EXCEPT !.bypass_cache = TRUE]}

JobStep(t) ==
    /\ t \in DOMAIN tasks
    /\ (JobBegin(t) \/ JobEngineDone(t) \/ JobAnalysisDone(t))

NextLive ==
    \/ \E req \in LiveRequests : SubmitSearchLive(req)
    \/ \E t \in DOMAIN tasks : JobBegin(t)
    \/ \E t \in DOMAIN tasks : JobEngineDone(t)
    \/ \E t \in DOMAIN tasks : JobAnalysisDone(t)

SpecLive ==
    /\ Init
    /\ [][NextLive]_vars
    /\ \A t \in 1..MaxLiveTasks : WF_vars(JobStep(t))

(***************************************************************************)
(* SpecStore: one job at a time with CACHE_MAX_PAYLOAD_BYTES just below,   *)
(* at and just above the length of the blob a fresh search serializes.     *)
(***************************************************************************)
FreshBlobLen == BlobLen(serialize_payload(_dump_response(BuiltResponse(UserRequest.query))))

StoreLimits == {0, FreshBlobLen - 1, FreshBlobLen, FreshBlobLen + 1}

StoreConfigs ==
    {[Config(TRUE, fail_open, FALSE, "kv") EXCEPT !.CACHE_MAX_PAYLOAD_BYTES = limit] :
        fail_open \in BOOLEAN, limit \in StoreLimits}

InitStore ==
    /\ cfg \in StoreConfigs
    /\ jobs = EmptyMap
    /\ timelines = EmptyMap
    /\ streams = EmptyMap
    /\ cache = EmptyMap
    /\ clock = 1
    /\ tasks = <<>>
    /\ http = NoHttp
    /\ sse = NoSse
    /\ reference = EmptyMap

SpecStore == InitStore /\ [][NextLive]_vars

(***************************************************************************)
(* Properties of the application.                                          *)
(***************************************************************************)
\* ReadOptions.count
ReadOptionsCount == 100

\* the events a timeline read without Last-Event-ID returns
TimelineOf(query_hash) == ReadInMemory(timelines, query_hash, <<>>, ReadOptionsCount)

HasStep(events, step) == \E i \in DOMAIN events : events[i].step = step

\* the most recent accepted submission of query_hash
LatestSubmission(query_hash) ==
    CHOOSE t \in DOMAIN tasks :
        /\ tasks[t].hash = query_hash
        /\ \A u \in DOMAIN tasks : tasks[u].hash = query_hash => u <= t

IsPrefix(a, b) == Len(a) <= Len(b) /\ SubSeq(b, 1, Len(a)) = a

\* C1: every response.completed event was published by a job that had
\* already finished mark_completed for its hash, on the fresh path, on the
\* per-request cache hit and on the precomputed hit alike; a job that has
\* announced completion has marked the job completed.
C1_MarkedBeforeCompleted ==
    /\ \A h \in DOMAIN timelines : \A i \in DOMAIN timelines[h] :
          timelines[h][i].step = "response.completed" => timelines[h][i].hooked
    /\ \A t \in DOMAIN tasks : tasks[t].announced => tasks[t].marked

C1_Witness ==
    \E t, u \in DOMAIN tasks :
        /\ tasks[t].path = "fresh" /\ tasks[t].announced
        /\ tasks[u].path = "cache" /\ tasks[u].announced
        /\ HasStep(TimelineOf(tasks[u].hash), "response.completed")

\* C2 as stated: whenever a timeline read of h returns response.completed,
\* the job of h is completed with a result.
C2_CompletedEventImpliesCompletedJob ==
    \A h \in DOMAIN timelines :
        HasStep(TimelineOf(h), "response.completed")
            => /\ HasJob(jobs, h)
               /\ jobs[h].status = "completed"
               /\ jobs[h].result # NoResult

\* C4: every accepted submission is followed by a state in which its job
\* has ended and the registry shows the hash completed or failed.
C4_JobsTerminate ==
    \A t \in 1..MaxLiveTasks :
        (Len(tasks) >= t)
            ~> (/\ Len(tasks) >= t
                /\ tasks[t].pc = "done"
                /\ HasJob(jobs, tasks[t].hash)
                /\ jobs[tasks[t].hash].status \in {"completed", "failed"})

C4_Witness ==
    /\ Len(tasks) >= 1
    /\ tasks[1].pc = "done"
    /\ tasks[1].raised = "engine failed"
    /\ jobs[tasks[1].hash].status = "failed"

\* C5: the step in which a job ends with an exception leaves the job failed
\* with the exception's text as error, publishes no response.completed, and
\* keeps every event already in the timeline.
C5_FailureStep ==
    [][\A t \in DOMAIN tasks :
          (tasks[t].pc # "done" /\ tasks'[t].pc = "done" /\ tasks'[t].raised # None)
              => /\ HasJob(jobs', tasks[t].hash)
                 /\ jobs'[tasks[t].hash].status = "failed"
                 /\ jobs'[tasks[t].hash].error = tasks'[t].raised
                 /\ ~tasks'[t].announced
                 /\ IsPrefix(EventsOf(timelines, tasks[t].hash),
                             EventsOf(timelines', tasks[t].hash))
                 /\ \A i \in DOMAIN EventsOf(timelines', tasks[t].hash) :
                       LET e == EventsOf(timelines', tasks[t].hash)[i]
                       IN  e.task = t => e.step # "response.completed"]_vars

C5_Witness ==
    \E t \in DOMAIN tasks :
        /\ tasks[t].pc = "done"
        /\ tasks[t].raised = CacheError
        /\ jobs[tasks[t].hash].status = "failed"
        /\ jobs[tasks[t].hash].error = CacheError
        /\ HasStep(TimelineOf(tasks[t].hash), "rag.pipeline.completed")
        /\ ~HasStep(TimelineOf(tasks[t].hash), "response.completed")

\* C7: a submission refused with 403 (guest while guest hashed queries are
\* off) or 400 (supplied hash differs from the computed one) changes no job
\* record, no timeline and no cache entry and schedules no job.
C7_RejectionChangesNothing ==
    [][\A req \in SpecRequests :
          ((GuestBlocked(cfg, req) \/ HashMismatch(req)) /\ SubmitSearch(req))
              => /\ http'.code = (IF GuestBlocked(cfg, req) THEN 403 ELSE 400)
                 /\ UNCHANGED <<jobs, timelines, cache, tasks>>]_vars

C7_Witness ==
    /\ http.op = "submit"
    /\ http.code = 400
    /\ Len(tasks) = 1
    /\ \E h \in DOMAIN jobs : jobs[h].status = "pending" /\ EventsOf(timelines, h) # <<>>

\* C8 as stated: every event a timeline read of h returns was published by
\* the job of the most recent accepted submission of h.
C8_NoEventOfEarlierSubmission ==
    \A h \in DOMAIN timelines : \A i \in DOMAIN TimelineOf(h) :
        TimelineOf(h)[i].task = LatestSubmission(h)

\* the steps of the events of job t that its timeline holds, in order
StepsBy(t) ==
    LET events == SelectSeq(EventsOf(timelines, tasks[t].hash), LAMBDA e : e.task = t)
    IN  [i \in DOMAIN events |-> events[i].step]

IsInfix(a, b) ==
    \E k \in 0..(Len(b) - Len(a)) : SubSeq(b, k + 1, k + Len(a)) = a

\* the order C14 states, with the engine's sub-steps and the analysis events
C14_FreshProtocol ==
    <<"search.cache.miss", "search.engine.started",
      "search.bq.started", "search.bq.completed", "search.reviews.selected",
      "search.engine.candidates", "rag.pipeline.started",
      "rag.product.analysis", "rag.pipeline.completed",
      "response.cached", "response.completed">>

\* C14: the events of a fresh run that stored its response follow the stated
\* order (the events a later submission has not cleared are a run of it, and
\* all of it for a finished run that was not cleared); a run publishes
\* response.completed at most once and publishes nothing after it.
C14_FreshRunOrder ==
    \A t \in DOMAIN tasks :
        tasks[t].path = "fresh" =>
            LET steps == StepsBy(t)
                cached == \E i \in DOMAIN steps : steps[i] = "response.cached"
                completed == \E i \in DOMAIN steps : steps[i] = "response.completed"
            IN  /\ (cached \/ ~completed) => IsInfix(steps, C14_FreshProtocol)
                /\ (cached \/ ~completed) /\ LatestSubmission(tasks[t].hash) = t
                       => IsPrefix(steps, C14_FreshProtocol)
                /\ cached /\ LatestSubmission(tasks[t].hash) = t
                       => steps = C14_FreshProtocol /\ tasks[t].pc = "done"
                /\ \A i \in DOMAIN steps :
                       steps[i] = "response.completed" => i = Len(steps)

\* a fresh run has stored its response and finished, and the timeline holds
\* all its events
C14_Witness ==
    \E t \in DOMAIN tasks :
        /\ tasks[t].path = "fresh"
        /\ tasks[t].announced
        /\ StepsBy(t) = C14_FreshProtocol

\* the events a step appended to a list
NewEvents(before, after) == SubSeq(after, Len(before) + 1, Len(after))

\* the per-request entry of the request, when it is present and valid
ValidEntry(c, req) ==
    /\ ResponseCacheKey(req) \in DOMAIN c
    /\ Decodes(c[ResponseCacheKey(req)])
    /\ Validates(deserialize_payload(c[ResponseCacheKey(req)]))

\* C15: when search_products runs with the cache enabled, without bypass,
\* and a valid per-request entry that the adapter returns, the job goes
\* straight to its end without calling the engine or the pipeline, publishes
\* exactly search.cache.hit and response.completed with source "cache",
\* hands the cached response to the registry and leaves the cache as it was.
C15_CacheHitShortCircuits ==
    [][\A t \in DOMAIN tasks : \A fails \in LookupFaults(cfg) :
          (/\ cfg.ENABLE_CACHE
           /\ ~tasks[t].req.bypass_cache
           /\ ValidEntry(cache, tasks[t].req)
           /\ get_precomputed_response(cfg, cache, tasks[t].req.query, fails).kind = "miss"
           /\ JobBeginWith(t, fails, FALSE))
          => LET h == tasks[t].hash
                 new == NewEvents(EventsOf(timelines, h), EventsOf(timelines', h))
             IN  /\ tasks'[t].pc = "done"
                 /\ tasks'[t].raised = None
                 /\ Len(new) = 2
                 /\ new[1].step = "search.cache.hit" /\ new[1].task = t
                 /\ new[2].step = "response.completed" /\ new[2].task = t
                 /\ new[2].payload.source = "cache"
                 /\ jobs'[h].status = "completed"
                 /\ jobs'[h].result = deserialize_payload(cache[ResponseCacheKey(tasks[t].req)])
                 /\ cache' = cache]_vars

\* a job has ended on the per-request cache hit and the timeline holds its
\* two events
C15_Witness ==
    \E t \in DOMAIN tasks :
        /\ tasks[t].pc = "done"
        /\ ~tasks[t].req.bypass_cache
        /\ ValidEntry(cache, tasks[t].req)
        /\ StepsBy(t) = <<"search.cache.hit", "response.completed">>

\* C16: when the catalogue lookup returns a response and the request does
\* not bypass the caches, the job goes straight to its end without calling
\* the engine, the pipeline or the per-request cache (whose failure would
\* show), publishes exactly response.cached and response.completed, both
\* with source "precomputed", and leaves the job completed with that response.
C16_PrecomputedShortCircuits ==
    [][\A t \in DOMAIN tasks : \A fails \in LookupFaults(cfg) : \A get_failed \in BOOLEAN :
          (/\ ~tasks[t].req.bypass_cache
           /\ get_precomputed_response(cfg, cache, tasks[t].req.query, fails).kind = "hit"
           /\ JobBeginWith(t, fails, get_failed))
          => LET h == tasks[t].hash
                 found == get_precomputed_response(cfg, cache, tasks[t].req.query, fails)
                 new == NewEvents(EventsOf(timelines, h), EventsOf(timelines', h))
             IN  /\ tasks'[t].pc = "done"
                 /\ tasks'[t].raised = None
                 /\ Len(new) = 2
                 /\ new[1].step = "response.cached" /\ new[1].task = t
                 /\ new[1].payload.source = "precomputed"
                 /\ new[2].step = "response.completed" /\ new[2].task = t
                 /\ new[2].payload.source = "precomputed"
                 /\ jobs'[h].status = "completed"
                 /\ jobs'[h].result = _dump_response(found.response)
                 /\ cache' = cache]_vars

\* under fail-closed a job has ended on the precomputed hit
C16_Witness ==
    \E t \in DOMAIN tasks :
        /\ ~cfg.CACHE_FAIL_OPEN
        /\ tasks[t].pc = "done"
        /\ StepsBy(t) = <<"response.cached", "response.completed">>
        /\ jobs[tasks[t].hash].status = "completed"

\* C20: when the adapter's set raises while a fresh search stores its
\* response, under fail-open the job still ends with the response: it
\* publishes no response.cached, the hook completes the job with the
\* response, and response.completed is published last, after the hook;
\* under fail-closed the job ends with the cache error before the hook:
\* the job is failed with that error and no response.completed is published.
\* The cache is left as it was either way.
C20_StoreFailure ==
    [][\A t \in DOMAIN tasks :
          (TRUE \in AdapterFaults(cfg) /\ JobAnalysisDoneWith(t, TRUE))
          => LET h == tasks[t].hash
                 new == NewEvents(EventsOf(timelines, h), EventsOf(timelines', h))
             IN  /\ tasks'[t].pc = "done"
                 /\ \A i \in DOMAIN new : new[i].step # "response.cached"
                 /\ cache' = cache
                 /\ IF cfg.CACHE_FAIL_OPEN
                    THEN /\ tasks'[t].raised = None
                         /\ tasks'[t].marked
                         /\ jobs'[h].status = "completed"
                         /\ jobs'[h].result = _dump_response(BuiltResponse(tasks[t].req.query))
                         /\ Len(new) > 0
                         /\ new[Len(new)].step = "response.completed"
                         /\ new[Len(new)].task = t
                         /\ new[Len(new)].hooked
                    ELSE /\ tasks'[t].raised = CacheError
                         /\ ~tasks'[t].marked
                         /\ jobs'[h].status = "failed"
                         /\ jobs'[h].error = CacheError
                         /\ \A i \in DOMAIN new : new[i].step # "response.completed"]_vars

\* under fail-open a fresh job has announced its completion without ever
\* publishing response.cached, which only a failed store allows
C20_Witness ==
    \E t \in DOMAIN tasks :
        /\ cfg.ENABLE_CACHE
        /\ cfg.CACHE_FAIL_OPEN
        /\ tasks[t].pc = "done"
        /\ tasks[t].path = "fresh"
        /\ tasks[t].announced
        /\ IsInfix(<<"rag.pipeline.completed", "response.completed">>, StepsBy(t))
        /\ ResponseCacheKey(tasks[t].req) \notin DOMAIN cache

\* C21: a fresh search whose serialized blob is no longer than
\* CACHE_MAX_PAYLOAD_BYTES writes its per-request entry and publishes
\* response.cached when the adapter accepts the set; when the blob is longer,
\* by one byte or more, the cache is left untouched whether or not the
\* adapter would accept a set, no response.cached is published, and the job
\* is still completed with the response and publishes response.completed last.
C21_PayloadSizeGuard ==
    [][\A t \in DOMAIN tasks : \A set_failed \in BOOLEAN :
          JobAnalysisDoneWith(t, set_failed)
          => LET h == tasks[t].hash
                 key == ResponseCacheKey(tasks[t].req)
                 blob == serialize_payload(_dump_response(BuiltResponse(tasks[t].req.query)))
                 new == NewEvents(EventsOf(timelines, h), EventsOf(timelines', h))
                 completes == /\ tasks'[t].pc = "done"
                              /\ tasks'[t].raised = None
                              /\ jobs'[h].status = "completed"
                              /\ jobs'[h].result =
                                     _dump_response(BuiltResponse(tasks[t].req.query))
                              /\ Len(new) > 0
                              /\ new[Len(new)].step = "response.completed"
             IN  IF BlobLen(blob) <= cfg.CACHE_MAX_PAYLOAD_BYTES
                 THEN ~set_failed =>
                          /\ cache' = Put(cache, key, blob)
                          /\ \E i \in DOMAIN new : new[i].step = "response.cached"
                          /\ completes
                 ELSE /\ cache' = cache
                      /\ \A i \in DOMAIN new : new[i].step # "response.cached"
                      /\ completes]_vars

\* with the limit one byte below the blob, a fresh job has announced its
\* completion and the per-request key was not written
C21_Witness ==
    \E t \in DOMAIN tasks :
        /\ cfg.CACHE_MAX_PAYLOAD_BYTES + 1 = FreshBlobLen
        /\ tasks[t].pc = "done"
        /\ tasks[t].path = "fresh"
        /\ tasks[t].announced
        /\ IsInfix(<<"rag.pipeline.completed", "response.completed">>, StepsBy(t))
        /\ ResponseCacheKey(tasks[t].req) \notin DOMAIN cache

\* C17 as stated: a job whose request bypasses the caches, once ended and
\* not cleared by a later submission, has reported search.cache.miss with
\* reason "bypass" and has called the engine; if it completed it has called
\* the pipeline too, and when it announced response.cached the per-request
\* key holds its fresh response.
C17_BypassAlwaysRunsEngine ==
    \A t \in DOMAIN tasks :
        (tasks[t].req.bypass_cache /\ tasks[t].pc = "done"
            /\ LatestSubmission(tasks[t].hash) = t)
        => LET events == SelectSeq(EventsOf(timelines, tasks[t].hash), LAMBDA e : e.task = t)
               steps == StepsBy(t)
           IN  /\ events # <<>>
               /\ events[1].step = "search.cache.miss"
               /\ events[1].payload.reason = "bypass"
               /\ \E i \in DOMAIN steps : steps[i] = "search.engine.started"
               /\ tasks[t].announced =>
                      \E i \in DOMAIN steps : steps[i] = "rag.pipeline.started"
               /\ (\E i \in DOMAIN steps : steps[i] = "response.cached") =>
                      /\ ResponseCacheKey(tasks[t].req) \in DOMAIN cache
                      /\ cache[ResponseCacheKey(tasks[t].req)]
                            = serialize_payload(_dump_response(BuiltResponse(tasks[t].req.query)))

(***************************************************************************)
(* Timeline bus over a Redis stream (utils/timeline.py).  A stream is the  *)
(* list of its entries; the length cap of XADD is never reached here.      *)
(***************************************************************************)
StreamOf(st, query_hash) == IF query_hash \in DOMAIN st THEN st[query_hash] ELSE <<>>

\* the id XADD assigns with "*": the server's milliseconds with sequence 0,
\* or the last id's milliseconds with the next sequence when the clock has
\* not passed them
XAddId(entries, now) ==
    IF entries = <<>> THEN FormatStreamId(now, 0)
    ELSE LET last == _parse_stream_id(entries[Len(entries)].id)
         IN  IF now > last[1] THEN FormatStreamId(now, 0)
             ELSE FormatStreamId(last[1], last[2] + 1)

xadd(st, query_hash, base, now) ==
    LET entries == StreamOf(st, query_hash)
    IN  Put(st, query_hash, Append(entries, [id |-> XAddId(entries, now), data |-> base]))

Published(st, tl, event) == [st |-> st, tl |-> tl, event |-> event]

\* the event _write_in_memory returns: the one it stored last
MemoryPublished(st, tl, query_hash, base, now) ==
    LET written == _write_in_memory(tl, query_hash, base, now)
    IN  Published(st, written, written[query_hash][Len(written[query_hash])])

\* fault: "none", "xadd" (the append raises), "expire" (the append is
\* stored and the TTL refresh raises)
publish_timeline_event(adapter, st, tl, query_hash, base, now, fault) ==
    IF adapter = "redis" /\ fault = "none"
    THEN LET added == xadd(st, query_hash, base, now)
             entry_id == added[query_hash][Len(added[query_hash])].id
         IN  Published(added, tl, WithIds(base, entry_id, _parse_stream_id(entry_id)[2]))
    ELSE IF adapter = "redis" /\ fault = "expire"
    THEN MemoryPublished(xadd(st, query_hash, base, now), tl, query_hash, base, now)
    ELSE MemoryPublished(st, tl, query_hash, base, now)

\* XREAD from start_id: the first count entries after it
xread(st, query_hash, start_id, count) ==
    FirstCount(SelectSeq(StreamOf(st, query_hash),
                         LAMBDA entry : TupleGreater(_parse_stream_id(entry.id),
                                                     _parse_stream_id(start_id))),
               count)

\* failed: XREAD raises
read_timeline_events(adapter, st, tl, query_hash, last_id, count, failed) ==
    IF adapter = "redis" /\ ~failed
    THEN LET start_id == IF last_id = <<>> THEN FormatStreamId(0, 0) ELSE last_id
             entries == xread(st, query_hash, start_id, count)
         IN  [i \in 1..Len(entries) |->
                 WithIds(entries[i].data, entries[i].id, _parse_stream_id(entries[i].id)[2])]
    ELSE ReadInMemory(tl, query_hash, last_id, count)

Cleared(st, tl) == [st |-> st, tl |-> tl]

\* failed: DEL raises
clear_timeline(adapter, st, tl, query_hash, failed) ==
    Cleared(IF adapter = "redis" /\ ~failed THEN Pop(st, query_hash) ELSE st,
            clear_in_memory_timelines(tl, query_hash))

(***************************************************************************)
(* SpecTimeline: the timeline bus under arbitrary publishes, reads and     *)
(* clears, on the in-memory adapter and on the Redis adapter.              *)
(***************************************************************************)
TimelineHashes == {ComputedHash(UserRequest), ComputedHash(GuestRequest)}

TimelineFaults(config) ==
    IF config.adapter = "redis" THEN {"none", "xadd", "expire"} ELSE {"none"}

ReadFaults(config) == IF config.adapter = "redis" THEN BOOLEAN ELSE {FALSE}

\* the number of events held for all hashes
Held == LET n(h) == Len(StreamOf(streams, h)) + Len(EventsOf(timelines, h))
        IN  n(ComputedHash(UserRequest)) + n(ComputedHash(GuestRequest))

\* the stream ids a client can hold for a hash
KnownIds(query_hash) ==
    {StreamOf(streams, query_hash)[i].id : i \in DOMAIN StreamOf(streams, query_hash)}
        \cup {EventsOf(timelines, query_hash)[i].stream_id :
                 i \in DOMAIN EventsOf(timelines, query_hash)}

InitTimeline ==
    /\ cfg \in {Config(TRUE, TRUE, FALSE, adapter) : adapter \in {"memory", "redis"}}
    /\ jobs = EmptyMap
    /\ timelines = EmptyMap
    /\ streams = EmptyMap
    /\ cache = EmptyMap
    /\ clock = 1
    /\ tasks = <<>>
    /\ http = NoHttp
    /\ sse = NoSse
    /\ reference = EmptyMap

\* the events held for the hash, in the stream and in memory
StoredEvents(query_hash) ==
    [i \in DOMAIN StreamOf(streams, query_hash) |->
        WithIds(StreamOf(streams, query_hash)[i].data, StreamOf(streams, query_hash)[i].id, 0)]
        \o EventsOf(timelines, query_hash)

\* uuid4: an event_id no held event has
FreshEventId ==
    LET used == UNION {{StoredEvents(h)[i].event_id : i \in DOMAIN StoredEvents(h)} :
                          h \in TimelineHashes}
    IN  CHOOSE n \in 1..(Cardinality(used) + 1) : n \notin used

TimelinePublish(query_hash, fault) ==
    /\ Held < MaxPublishes
    /\ \E out \in {publish_timeline_event(cfg.adapter, streams, timelines, query_hash,
                                          BaseEvent(FreshEventId, "search.cache.miss", NoPayload, 0, FALSE),
                                          clock, fault)} :
         /\ streams' = out.st
         /\ timelines' = out.tl
         /\ http' = [op |-> "publish", hash |-> query_hash, event |-> out.event]
    /\ UNCHANGED <<cfg, jobs, cache, clock, tasks, sse, reference>>

TimelineRead(query_hash, last_id, count, failed) ==
    /\ http' = [op |-> "read", hash |-> query_hash, last_id |-> last_id, count |-> count,
                events |-> read_timeline_events(cfg.adapter, streams, timelines,
                                                query_hash, last_id, count, failed)]
    /\ UNCHANGED <<cfg, jobs, timelines, streams, cache, clock, tasks, sse, reference>>

TimelineClear(query_hash, failed) ==
    /\ \E out \in {clear_timeline(cfg.adapter, streams, timelines, query_hash, failed)} :
         /\ streams' = out.st
         /\ timelines' = out.tl
    /\ http' = [op |-> "clear", hash |-> query_hash]
    /\ UNCHANGED <<cfg, jobs, cache, clock, tasks, sse, reference>>

NextTimeline ==
    \/ \E h \in TimelineHashes, fault \in TimelineFaults(cfg) : TimelinePublish(h, fault)
    \/ \E h \in TimelineHashes, count \in {1, ReadOptionsCount}, failed \in ReadFaults(cfg) :
          \E last_id \in {<<>>} \cup KnownIds(h) : TimelineRead(h, last_id, count, failed)
    \/ \E h \in TimelineHashes, failed \in ReadFaults(cfg) : TimelineClear(h, failed)
    \/ Tick

SpecTimeline == InitTimeline /\ [][NextTimeline]_vars

\* the events a read of the hash from the start returns
Replay(query_hash) ==
    read_timeline_events(cfg.adapter, streams, timelines, query_hash, <<>>,
                         ReadOptionsCount, FALSE)

\* C9 as stated: on either backend the events of a hash carry the sequence
\* values 1, 2, ..., n in append order, and every publish returns a
\* sequence of at least 1.
C9_SequencesCountFromOne ==
    /\ \A h \in TimelineHashes : \A i \in DOMAIN Replay(h) : Replay(h)[i].sequence = i
    /\ http.op = "publish" => http.event.sequence >= 1

\* C10 as stated: the events of one read are in non-decreasing (millis,
\* seq) order, and no two events held for a hash have the same stream_id.
C10_OrderedAndDistinctIds ==
    /\ http.op = "read" =>
          \A i, j \in DOMAIN http.events :
              i < j => ~TupleGreater(_parse_stream_id(http.events[i].stream_id),
                                     _parse_stream_id(http.events[j].stream_id))
    /\ \A h \in TimelineHashes : \A i, j \in DOMAIN StoredEvents(h) :
          StoredEvents(h)[i].event_id # StoredEvents(h)[j].event_id
              => StoredEvents(h)[i].stream_id # StoredEvents(h)[j].stream_id

\* C11: on the in-memory backend a read of h after last_id returns only
\* stored events of h with a stream id strictly greater than last_id, as a
\* run of the stored list; after the id of the last stored event it returns
\* nothing, and after the id of the second of three events it returns
\* exactly the third.
C11_ReadAfterLastId ==
    (cfg.adapter = "memory" /\ http.op = "read" /\ http.last_id # <<>>) =>
        LET stored == EventsOf(timelines, http.hash)
            got == http.events
            last_tuple == _parse_stream_id(http.last_id)
        IN  /\ \A i \in DOMAIN got :
                   TupleGreater(_parse_stream_id(got[i].stream_id), last_tuple)
            /\ \E first \in 1..(Len(stored) + 1) :
                   got = SubSeq(stored, first, first + Len(got) - 1)
            /\ (stored # <<>> /\ http.last_id = stored[Len(stored)].stream_id)
                   => got = <<>>
            /\ (Len(stored) = 3 /\ http.last_id = stored[2].stream_id)
                   => got = <<stored[3]>>

\* three events are stored for the hash and a read after the id of the
\* second returned the third
C11_Witness ==
    /\ cfg.adapter = "memory"
    /\ http.op = "read"
    /\ Len(EventsOf(timelines, http.hash)) = 3
    /\ http.last_id = EventsOf(timelines, http.hash)[2].stream_id
    /\ http.events = <<EventsOf(timelines, http.hash)[3]>>

\* the event ids of the entries of the hash's stream
C13_StreamEventIds(query_hash) ==
    {StreamOf(streams, query_hash)[i].data.event_id : i \in DOMAIN StreamOf(streams, query_hash)}

\* C13 as stated: on the structured-stream adapter a publish whose append
\* failed returns the event it stored at the end of the in-memory buffer,
\* and every read of the hash from the start, whether the stream serves it
\* or it falls back to memory, returns each event that is held only in
\* memory.
C13_FallbackEventIsRead ==
    /\ (cfg.adapter = "redis" /\ http.op = "publish"
            /\ http.event.event_id \notin C13_StreamEventIds(http.hash))
          => LET events == EventsOf(timelines, http.hash)
             IN  events # <<>> /\ events[Len(events)] = http.event
    /\ (cfg.adapter = "redis" /\ http.op = "read" /\ http.last_id = <<>>
            /\ http.count = ReadOptionsCount)
          => \A i \in DOMAIN EventsOf(timelines, http.hash) :
                LET e == EventsOf(timelines, http.hash)[i]
                IN  e.event_id \notin C13_StreamEventIds(http.hash)
                        => \E j \in DOMAIN http.events : http.events[j].event_id = e.event_id

(***************************************************************************)
(* SpecSse: one SSE client of GET /timeline/{hash} polling the bus while   *)
(* events are published to its hash; the timeline is never cleared.        *)
(***************************************************************************)
TIMELINE_BATCH_SIZE == 100

SseHash == ComputedHash(UserRequest)

\* the batch sizes a consumer reads with; the endpoint's generator uses
\* TIMELINE_BATCH_SIZE
SseBatchSizes == {1, TIMELINE_BATCH_SIZE}

\* the generator at its first iteration: last_id is the request's
\* last_event_id, here absent; received is the set of event ids it yielded
SseOpened(query_hash, count) ==
    [open |-> TRUE, query_hash |-> query_hash, last_id |-> <<>>, count |-> count,
     received |-> {}]

\* one iteration of the generator's loop over the events of one read
_timeline_event_generator(gen, events) ==
    IF events = <<>> THEN gen
    ELSE [gen EXCEPT !.last_id = events[Len(events)].stream_id,
                     !.received = @ \cup {events[i].event_id : i \in DOMAIN events}]

InitSse ==
    /\ cfg \in {Config(TRUE, TRUE, FALSE, adapter) : adapter \in {"memory", "redis"}}
    /\ jobs = EmptyMap
    /\ timelines = EmptyMap
    /\ streams = EmptyMap
    /\ cache = EmptyMap
    /\ clock = 1
    /\ tasks = <<>>
    /\ http = NoHttp
    /\ sse \in {SseOpened(SseHash, count) : count \in SseBatchSizes}
    /\ reference = EmptyMap

SsePoll(failed) ==
    /\ sse.open
    /\ \E events \in {read_timeline_events(cfg.adapter, streams, timelines, sse.query_hash,
                                             sse.last_id, sse.count, failed)} :
         /\ sse' = _timeline_event_generator(sse, events)
         /\ http' = [op |-> "sse", hash |-> sse.query_hash, events |-> events]
    /\ UNCHANGED <<cfg, jobs, timelines, streams, cache, clock, tasks, reference>>

NextSse ==
    \/ \E fault \in TimelineFaults(cfg) : TimelinePublish(SseHash, fault)
    \/ \E failed \in ReadFaults(cfg) : SsePoll(failed)
    \/ Tick

SpecSse == InitSse /\ [][NextSse]_vars

\* C12 as stated, in the form a finite run refutes: the consumer's last_id
\* never passes an event of its hash that it has not received (reads return
\* only events after last_id, so a passed event is never delivered).
C12_NoEventSkipped ==
    (sse.open /\ sse.last_id # <<>>) =>
        \A i \in DOMAIN StoredEvents(sse.query_hash) :
            LET e == StoredEvents(sse.query_hash)[i]
            IN  ~TupleGreater(_parse_stream_id(e.stream_id), _parse_stream_id(sse.last_id))
                    => e.event_id \in sse.received

(***************************************************************************)
(* SpecCatalogue: get_precomputed_response and _get_cached_response over a *)
(* remote cache whose entries are written by the admin upserts and by      *)
(* searches, expire, and can come back damaged.                            *)
(***************************************************************************)
CatalogueQuery == <<"a">>

\* the canonical entry differs from the precomputed one
CanonicalResponse == SearchResponse(CatalogueQuery, 2)

\* the keys the two lookups read for the query, with slug "s1"
CatalogueKeys ==
    {build_canonical_query_key(CatalogueQuery), build_canonical_payload_key("s1"),
     build_precomputed_query_key(CatalogueQuery), build_precomputed_payload_key("s1"),
     ResponseCacheKey(UserRequest)}

InitCatalogue ==
    /\ cfg \in {Config(TRUE, fail_open, FALSE, "kv") : fail_open \in BOOLEAN}
    /\ jobs = EmptyMap
    /\ timelines = EmptyMap
    /\ streams = EmptyMap
    /\ cache = EmptyMap
    /\ clock = 1
    /\ tasks = <<>>
    /\ http = NoHttp
    /\ sse = NoSse
    /\ reference = EmptyMap

\* the cache changes; the last lookup's reply no longer describes it
CatalogueWrite(c) ==
    /\ cache' = c
    /\ http' = NoHttp
    /\ UNCHANGED <<cfg, jobs, timelines, streams, clock, tasks, sse, reference>>

CatalogueUpsertPrecomputed ==
    CatalogueWrite(store_precomputed_response(cache, "s1", CatalogueQuery,
                                              BuiltResponse(CatalogueQuery)))

CatalogueUpsertCanonical ==
    CatalogueWrite(store_canonical_response(cache, "s1", CatalogueQuery, CanonicalResponse))

CatalogueStoreResponse ==
    CatalogueWrite(StoreFresh(cfg, cache, UserRequest, FALSE).c)

\* an entry's TTL runs out
CatalogueExpire(key) == key \in DOMAIN cache /\ CatalogueWrite(Pop(cache, key))

\* an entry comes back as bytes that are neither UTF-8 nor gzip
CatalogueCorrupt(key) == key \in DOMAIN cache /\ CatalogueWrite(Put(cache, key, CorruptBlob))

CataloguePrecomputedLookup(fails) ==
    /\ http' = [op |-> "precomputed", fails |-> fails,
                found |-> get_precomputed_response(cfg, cache, CatalogueQuery, fails)]
    /\ UNCHANGED <<cfg, jobs, timelines, streams, cache, clock, tasks, sse, reference>>

CatalogueCachedLookup(failed) ==
    /\ http' = [op |-> "cached", failed |-> failed,
                found |-> _get_cached_response(cfg, cache, ResponseCacheKey(UserRequest),
                                               failed)]
    /\ UNCHANGED <<cfg, jobs, timelines, streams, cache, clock, tasks, sse, reference>>

NextCatalogue ==
    \/ CatalogueUpsertPrecomputed
    \/ CatalogueUpsertCanonical
    \/ CatalogueStoreResponse
    \/ \E key \in CatalogueKeys : CatalogueExpire(key)
    \/ \E key \in CatalogueKeys : CatalogueCorrupt(key)
    \/ \E fails \in LookupFaults(cfg) : CataloguePrecomputedLookup(fails)
    \/ \E failed \in AdapterFaults(cfg) : CatalogueCachedLookup(failed)

SpecCatalogue == InitCatalogue /\ [][NextCatalogue]_vars

\* the tier's query -> slug mapping and the payload it names both exist
TierExists(query_key, payload_key) ==
    query_key \in DOMAIN cache /\ payload_key \in DOMAIN cache

CanonicalExists ==
    TierExists(build_canonical_query_key(CatalogueQuery), build_canonical_payload_key("s1"))

PrecomputedExists ==
    TierExists(build_precomputed_query_key(CatalogueQuery),
               build_precomputed_payload_key("s1"))

\* every stored entry is as it was written
Undamaged == \A key \in DOMAIN cache : cache[key] # CorruptBlob

\* C18: when the adapter answers every get and no stored entry is damaged,
\* get_precomputed_response returns the canonical payload whenever the
\* canonical mapping and its payload both exist; otherwise it returns the
\* precomputed payload if that tier's mapping and payload both exist;
\* otherwise it returns null.
C18_LookupPrecedence ==
    (http.op = "precomputed" /\ http.fails = {} /\ Undamaged) =>
        http.found =
            IF CanonicalExists THEN Lookup("hit", CanonicalResponse, None)
            ELSE IF PrecomputedExists
            THEN Lookup("hit", BuiltResponse(CatalogueQuery), None)
            ELSE Lookup("miss", NoResult, None)

\* both tiers hold the query and the lookup answered with the canonical one
C18_Witness ==
    /\ http.op = "precomputed"
    /\ http.fails = {}
    /\ Undamaged
    /\ CanonicalExists
    /\ PrecomputedExists
    /\ http.found = Lookup("hit", CanonicalResponse, None)

\* C19: under CACHE_FAIL_OPEN neither get_precomputed_response nor
\* _get_cached_response raises, whatever gets the adapter fails and whatever
\* entries are damaged; under fail-closed a failing first get, a damaged
\* canonical slug and a damaged per-request entry each raise to the caller.
C19_FailOpenLookupsNeverRaise ==
    /\ (cfg.CACHE_FAIL_OPEN /\ http.op \in {"precomputed", "cached"}) =>
           http.found.kind # "raise"
    /\ (~cfg.CACHE_FAIL_OPEN /\ http.op = "precomputed") =>
           /\ "canonical-index" \in http.fails => http.found.kind = "raise"
           /\ ( /\ http.fails = {}
                /\ build_canonical_query_key(CatalogueQuery) \in DOMAIN cache
                /\ cache[build_canonical_query_key(CatalogueQuery)] = CorruptBlob )
              => http.found.kind = "raise"
    /\ (~cfg.CACHE_FAIL_OPEN /\ http.op = "cached") =>
           /\ http.failed => http.found.kind = "raise"
           /\ ( /\ ResponseCacheKey(UserRequest) \in DOMAIN cache
                /\ cache[ResponseCacheKey(UserRequest)] = CorruptBlob )
              => http.found.kind = "raise"

(***************************************************************************)
(* SpecAdmin: the catalogue under the admin endpoints and the service      *)
(* calls behind them, the adapter answering every call.                    *)
(***************************************************************************)
AdminSlugs == {"s1", "s2"}

\* two spellings of one query
AdminQueries == {<<"a">>, <<"A", " ">>}

AdminResponses == {SearchResponse(<<"a">>, count) : count \in {1, 2}}

AdminReply(status, c) == [status |-> status, c |-> c]

\* upsert_precomputed_cache
upsert_precomputed_cache(config, c, slug, query, response) ==
    IF ~config.ENABLE_CACHE THEN AdminReply(503, c)
    ELSE AdminReply(204,
                    store_canonical_response(
                        store_precomputed_response(c, slug, query, response),
                        slug, query, response))

\* delete_precomputed_cache; query <<>> stands for no query parameter
delete_precomputed_cache(config, c, slug, query) ==
    IF ~config.ENABLE_CACHE THEN AdminReply(503, c)
    ELSE LET index == list_precomputed_responses(config, c)
             canonical_query ==
                 IF query # <<>> THEN canonicalize_query(query)
                 ELSE IF slug \in DOMAIN index THEN index[slug].query
                 ELSE <<>>
         IN  AdminReply(200, delete_precomputed_response(config, c, slug, canonical_query).c)

\* list_precomputed_cache: the status; the items are list_precomputed_responses
list_precomputed_cache(config, c) ==
    IF ~config.ENABLE_CACHE THEN AdminReply(503, c) ELSE AdminReply(200, c)

InitAdmin ==
    /\ cfg \in {Config(enable_cache, TRUE, FALSE, "kv") : enable_cache \in BOOLEAN}
    /\ jobs = EmptyMap
    /\ timelines = EmptyMap
    /\ streams = EmptyMap
    /\ cache = EmptyMap
    /\ clock = 1
    /\ tasks = <<>>
    /\ http = NoHttp
    /\ sse = NoSse
    /\ reference = EmptyMap

\* a call leaves the cache as c and its reply in http
AdminCall(op, reply, c) ==
    /\ cache' = c
    /\ http' = [op |-> op, reply |-> reply]
    /\ UNCHANGED <<cfg, jobs, timelines, streams, clock, tasks, sse, reference>>

AdminUpsert(slug, query, response) ==
    LET reply == upsert_precomputed_cache(cfg, cache, slug, query, response)
    IN  AdminCall("upsert_precomputed_cache", reply.status, reply.c)

AdminDelete(slug, query) ==
    LET reply == delete_precomputed_cache(cfg, cache, slug, query)
    IN  AdminCall("delete_precomputed_cache", reply.status, reply.c)

AdminList ==
    LET reply == list_precomputed_cache(cfg, cache)
    IN  AdminCall("list_precomputed_cache", reply.status, reply.c)

\* the slug's precomputed payload is stored and is not the response's
Replaces(slug, response) ==
    /\ build_precomputed_payload_key(slug) \in DOMAIN cache
    /\ cache[build_precomputed_payload_key(slug)]
           # serialize_payload(_dump_response(response))

\* store_precomputed_response raises without a cache; the reply records
\* whether the call replaced another payload of the slug
ServiceStorePrecomputed(slug, query, response) ==
    IF cfg.ENABLE_CACHE
    THEN AdminCall("store_precomputed_response",
                   IF Replaces(slug, response) THEN "replaced" ELSE None,
                   store_precomputed_response(cache, slug, query, response))
    ELSE AdminCall("store_precomputed_response", "RuntimeError", cache)

ServiceStoreCanonical(slug, query, response) ==
    IF cfg.ENABLE_CACHE
    THEN AdminCall("store_canonical_response", None,
                   store_canonical_response(cache, slug, query, response))
    ELSE AdminCall("store_canonical_response", "RuntimeError", cache)

ServiceDelete(slug) ==
    LET removal == delete_precomputed_response(cfg, cache, slug, <<>>)
    IN  AdminCall("delete_precomputed_response", removal.removed, removal.c)

ServiceLookup(query) ==
    AdminCall("get_precomputed_response",
              get_precomputed_response(cfg, cache, query, {}).kind, cache)

NextAdmin ==
    \/ \E slug \in AdminSlugs, query \in AdminQueries, response \in AdminResponses :
           AdminUpsert(slug, query, response)
    \/ \E slug \in AdminSlugs, query \in AdminQueries \cup {<<>>} : AdminDelete(slug, query)
    \/ AdminList
    \/ \E slug \in AdminSlugs, query \in AdminQueries, response \in AdminResponses :
           ServiceStorePrecomputed(slug, query, response)
    \/ \E slug \in AdminSlugs, query \in AdminQueries, response \in AdminResponses :
           ServiceStoreCanonical(slug, query, response)
    \/ \E slug \in AdminSlugs : ServiceDelete(slug)
    \/ \E query \in AdminQueries : ServiceLookup(query)

SpecAdmin == InitAdmin /\ [][NextAdmin]_vars

\* the cache holds what store_precomputed_response and then
\* store_canonical_response write for (slug, query)
StoredBoth(slug, query) ==
    \E precomputed \in AdminResponses, canonical \in AdminResponses :
        cache = store_canonical_response(
                    store_precomputed_response(cache, slug, query, precomputed),
                    slug, query, canonical)

\* C22: once store_precomputed_response and store_canonical_response have
\* stored (slug, q), delete_precomputed_response(slug) without a query
\* returns true; afterwards get_precomputed_response(q) is null and the slug
\* is absent from list_precomputed_responses, and a second delete of the
\* slug returns true and leaves every cache key as it is.
C22_DeleteThenDeleteAgain ==
    [][\A slug \in AdminSlugs : \A query \in AdminQueries :
          (cfg.ENABLE_CACHE /\ StoredBoth(slug, query) /\ ServiceDelete(slug))
          => /\ http'.reply = TRUE
             /\ get_precomputed_response(cfg, cache', query, {}) = Lookup("miss", NoResult, None)
             /\ slug \notin DOMAIN list_precomputed_responses(cfg, cache')
             /\ delete_precomputed_response(cfg, cache', slug, <<>>) = Removal(TRUE, cache')]_vars

\* a delete has answered true and left both indexes written and empty
C22_Witness ==
    /\ http.op = "delete_precomputed_response"
    /\ http.reply = TRUE
    /\ build_precomputed_index_key \in DOMAIN cache
    /\ build_canonical_index_key \in DOMAIN cache
    /\ list_precomputed_responses(cfg, cache) = EmptyMap

\* with ENABLE_CACHE false no lookup finds anything, whatever the store
\* holds and whether or not the adapter would raise; the admin endpoints
\* answer 503 and leave the store alone; no job leaves the fresh path
DisabledCacheAnswers ==
    ~cfg.ENABLE_CACHE =>
            /\ \A query \in AdminQueries :
               \A fails \in SUBSET {"canonical-index", "canonical-fetch",
                                     "precomputed-index", "precomputed-fetch"} :
                   get_precomputed_response(cfg, cache, query, fails)
                       = Lookup("miss", NoResult, None)
            /\ \A slug \in AdminSlugs : \A query \in AdminQueries :
                   /\ \A response \in AdminResponses :
                          upsert_precomputed_cache(cfg, cache, slug, query, response)
                              = AdminReply(503, cache)
                   /\ delete_precomputed_cache(cfg, cache, slug, query)
                          = AdminReply(503, cache)
            /\ list_precomputed_cache(cfg, cache) = AdminReply(503, cache)
            /\ \A t \in DOMAIN tasks : tasks[t].path \in {"none", "fresh"}

\* with ENABLE_CACHE false a job's first stretch reports search.cache.miss
\* with reason "disabled", or the reason given when the request sets
\* bypass_cache, calls the engine and leaves the store alone
DisabledCacheBegin(reason_of_bypass) ==
    \A t \in DOMAIN tasks : \A fails \in SUBSET {"canonical-index"} :
           \A get_failed \in BOOLEAN :
              (~cfg.ENABLE_CACHE /\ JobBeginWith(t, fails, get_failed))
              => LET h == tasks[t].hash
                     new == NewEvents(EventsOf(timelines, h), EventsOf(timelines', h))
                 IN  /\ cache' = cache
                     /\ tasks'[t].pc = "engine"
                     /\ Len(new) = 2
                     /\ new[1].step = "search.cache.miss"
                     /\ new[1].payload.reason =
                            IF tasks[t].req.bypass_cache THEN reason_of_bypass
                            ELSE "disabled"
                     /\ new[2].step = "search.engine.started"

\* with ENABLE_CACHE false a job's last stretch publishes no
\* response.cached, leaves the store alone and completes the job,
\* response.completed coming last
DisabledCacheEnd ==
    \A t \in DOMAIN tasks : \A set_failed \in BOOLEAN :
              (~cfg.ENABLE_CACHE /\ JobAnalysisDoneWith(t, set_failed))
              => LET h == tasks[t].hash
                     new == NewEvents(EventsOf(timelines, h), EventsOf(timelines', h))
                 IN  /\ cache' = cache
                     /\ \A i \in DOMAIN new : new[i].step # "response.cached"
                     /\ tasks'[t].pc = "done"
                     /\ tasks'[t].raised = None
                     /\ jobs'[h].status = "completed"
                     /\ Len(new) > 0
                     /\ new[Len(new)].step = "response.completed"

\* C25 as stated: with ENABLE_CACHE false every run reports
\* search.cache.miss with reason "disabled", invokes the engine and the
\* analysis, touches no cache key, publishes no response.cached and
\* completes; get_precomputed_response returns null; the admin list, upsert
\* and delete endpoints answer 503 without touching the cache.
C25_DisabledReasonAlways ==
    /\ []DisabledCacheAnswers
    /\ [][DisabledCacheBegin("disabled")]_vars
    /\ [][DisabledCacheEnd]_vars

\* C25 amended: as stated, except that a run whose request sets
\* bypass_cache reports reason "bypass" and every other run "disabled".
C25_DisabledCacheNoMemoization ==
    /\ []DisabledCacheAnswers
    /\ [][DisabledCacheBegin("bypass")]_vars
    /\ [][DisabledCacheEnd]_vars

\* with the cache off and the store holding an entry for the request, a job
\* has completed on the fresh path
C25_Witness ==
    \E t \in DOMAIN tasks :
        /\ ~cfg.ENABLE_CACHE
        /\ ValidEntry(cache, tasks[t].req)
        /\ tasks[t].pc = "done"
        /\ tasks[t].path = "fresh"
        /\ tasks[t].announced
        /\ jobs[tasks[t].hash].status = "completed"
        /\ IsInfix(<<"rag.pipeline.completed", "response.completed">>, StepsBy(t))

\* the canonical tier answers for the query
CanonicalAnswers(c, query) ==
    /\ build_canonical_query_key(query) \in DOMAIN c
    /\ build_canonical_payload_key(c[build_canonical_query_key(query)].text) \in DOMAIN c

\* C23 as stated: a second store_precomputed_response with the same
\* arguments changes no key, and one for the same slug and query with
\* another response makes get_precomputed_response(query) return the new
\* response, the index holding the slug.
C23_StoreTwice ==
    [][\A slug \in AdminSlugs : \A query \in AdminQueries : \A response \in AdminResponses :
          (cfg.ENABLE_CACHE /\ ServiceStorePrecomputed(slug, query, response))
          => /\ store_precomputed_response(cache', slug, query, response) = cache'
             /\ slug \in DOMAIN LoadIndex(cache', build_precomputed_index_key)
             /\ (\E earlier \in AdminResponses \ {response} :
                     cache = store_precomputed_response(cache, slug, query, earlier))
                => get_precomputed_response(cfg, cache', query, {})
                       = Lookup("hit", response, None)]_vars

\* C23 amended: a second store_precomputed_response with the same arguments
\* changes no key; one for the same slug and query with another response
\* replaces the slug's precomputed payload and keeps the slug in the index,
\* and get_precomputed_response(query) returns the new response exactly when
\* the canonical tier does not answer for the query: otherwise it returns
\* the canonical payload as before.
C23_StoreTwiceBelowCanonical ==
    [][\A slug \in AdminSlugs : \A query \in AdminQueries : \A response \in AdminResponses :
          (cfg.ENABLE_CACHE /\ ServiceStorePrecomputed(slug, query, response))
          => /\ store_precomputed_response(cache', slug, query, response) = cache'
             /\ slug \in DOMAIN LoadIndex(cache', build_precomputed_index_key)
             /\ cache'[build_precomputed_payload_key(slug)]
                    = serialize_payload(_dump_response(response))
             /\ cache'[build_precomputed_query_key(query)] = SlugBlob(slug)
             /\ get_precomputed_response(cfg, cache', query, {})
                    = IF CanonicalAnswers(cache, query)
                      THEN get_precomputed_response(cfg, cache, query, {})
                      ELSE Lookup("hit", response, None)]_vars

\* a store has replaced a slug's payload while the canonical tier holds
\* nothing
C23_Witness ==
    /\ http.op = "store_precomputed_response"
    /\ http.reply = "replaced"
    /\ \A query \in AdminQueries : ~CanonicalAnswers(cache, query)
    /\ \E query \in AdminQueries :
           get_precomputed_response(cfg, cache, query, {}).kind = "hit"

(***************************************************************************)
(* SpecMemory: InMemoryCacheAdapter (cache/adapters.py) under arbitrary    *)
(* calls and clock advances.  cache is the adapter's _data, the clock      *)
(* counts half seconds, and reference keeps, per key, the most recent      *)
(* write that no delete followed.  Every method runs under the adapter's   *)
(* lock without a suspension point: one step.                              *)
(***************************************************************************)
MaxMemoryClock == 6

TicksPerSecond == 2

\* float("inf")
Infinity == [finite |-> FALSE, at |-> 0]

At(time) == [finite |-> TRUE, at |-> time]

CacheValue(payload, expires_at) == [payload |-> payload, expires_at |-> expires_at]

\* time.time() >= entry.expires_at
Reached(now, expires_at) == expires_at.finite /\ now >= expires_at.at

AdapterReply(reply, data) == [reply |-> reply, data |-> data]

\* a get that still serves an entry at the instant of its expiry
InMemoryCacheAdapter_get_serves_at_expiry(data, now, key) ==
    IF key \notin DOMAIN data THEN AdapterReply(None, data)
    ELSE IF data[key].expires_at.finite /\ now > data[key].expires_at.at
    THEN AdapterReply(None, Pop(data, key))
    ELSE AdapterReply(data[key].payload, data)

InMemoryCacheAdapter_get(data, now, key) ==
    IF key \notin DOMAIN data THEN AdapterReply(None, data)
    ELSE IF Reached(now, data[key].expires_at) THEN AdapterReply(None, Pop(data, key))
    ELSE AdapterReply(data[key].payload, data)

InMemoryCacheAdapter_exists(data, now, key) ==
    IF key \notin DOMAIN data THEN AdapterReply(FALSE, data)
    ELSE IF Reached(now, data[key].expires_at) THEN AdapterReply(FALSE, Pop(data, key))
    ELSE AdapterReply(TRUE, data)

\* max(ttl_seconds, 1), in ticks
TtlTicks(ttl_seconds) == (IF ttl_seconds > 1 THEN ttl_seconds ELSE 1) * TicksPerSecond

InMemoryCacheAdapter_set(data, now, key, value, ttl_seconds) ==
    Put(data, key, CacheValue(value, At(now + TtlTicks(ttl_seconds))))

InMemoryCacheAdapter_set_persistent(data, key, value) ==
    Put(data, key, CacheValue(value, Infinity))

InMemoryCacheAdapter_delete(data, key) == Pop(data, key)

MemoryKeys == {"k1", "k2"}

MemoryValues == {"v1", "v2"}

MemoryTtls == {-1, 0, 1, 2}

\* the reference TTL map: the write, when it was made and with what ttl
Written(value, at, ttl_seconds, persistent) ==
    [value |-> value, at |-> at, ttl_seconds |-> ttl_seconds, persistent |-> persistent]

\* what the reference map answers for the key now
ReferenceGet(key) ==
    IF key \notin DOMAIN reference THEN None
    ELSE IF reference[key].persistent THEN reference[key].value
    ELSE IF clock < reference[key].at + TtlTicks(reference[key].ttl_seconds)
    THEN reference[key].value
    ELSE None

InitMemory ==
    /\ cfg = Config(TRUE, TRUE, FALSE, "memory")
    /\ jobs = EmptyMap
    /\ timelines = EmptyMap
    /\ streams = EmptyMap
    /\ cache = EmptyMap
    /\ clock = 1
    /\ tasks = <<>>
    /\ http = NoHttp
    /\ sse = NoSse
    /\ reference = EmptyMap

MemoryCall(op, key, reply, data, written) ==
    /\ cache' = data
    /\ http' = [op |-> op, key |-> key, reply |-> reply]
    /\ reference' = written
    /\ UNCHANGED <<cfg, jobs, timelines, streams, clock, tasks, sse>>

MemoryGet(key) ==
    LET got == InMemoryCacheAdapter_get(cache, clock, key)
    IN  MemoryCall("get", key, got.reply, got.data, reference)

MemoryExists(key) ==
    LET got == InMemoryCacheAdapter_exists(cache, clock, key)
    IN  MemoryCall("exists", key, got.reply, got.data, reference)

MemorySet(key, value, ttl_seconds) ==
    MemoryCall("set", key, None,
               InMemoryCacheAdapter_set(cache, clock, key, value, ttl_seconds),
               Put(reference, key, Written(value, clock, ttl_seconds, FALSE)))

MemorySetPersistent(key, value) ==
    MemoryCall("set_persistent", key, None,
               InMemoryCacheAdapter_set_persistent(cache, key, value),
               Put(reference, key, Written(value, clock, 0, TRUE)))

MemoryDelete(key) ==
    MemoryCall("delete", key, None, InMemoryCacheAdapter_delete(cache, key),
               Pop(reference, key))

MemoryTick ==
    /\ clock < MaxMemoryClock
    /\ clock' = clock + 1
    /\ UNCHANGED <<cfg, jobs, timelines, streams, cache, tasks, http, sse, reference>>

NextMemory ==
    \/ \E key \in MemoryKeys : MemoryGet(key)
    \/ \E key \in MemoryKeys : MemoryExists(key)
    \/ \E key \in MemoryKeys, value \in MemoryValues, ttl_seconds \in MemoryTtls :
           MemorySet(key, value, ttl_seconds)
    \/ \E key \in MemoryKeys, value \in MemoryValues : MemorySetPersistent(key, value)
    \/ \E key \in MemoryKeys : MemoryDelete(key)
    \/ MemoryTick

SpecMemory == InitMemory /\ [][NextMemory]_vars

\* C24: at every instant and for every key, get returns what the reference
\* TTL map answers, the value of the most recent set or set_persistent that
\* no delete followed while the time is strictly before write time +
\* max(ttl, 1) seconds (never expiring for set_persistent) and null
\* otherwise, and exists is true exactly when that answer is not null; the
\* replies actually given agree with it.
C24_RefinesTtlMap ==
    /\ [](\A key \in MemoryKeys :
             /\ InMemoryCacheAdapter_get(cache, clock, key).reply = ReferenceGet(key)
             /\ InMemoryCacheAdapter_exists(cache, clock, key).reply
                    = (ReferenceGet(key) # None))
    /\ [][\A key \in MemoryKeys :
              /\ MemoryGet(key) => http'.reply = ReferenceGet(key)
              /\ MemoryExists(key) => http'.reply = (ReferenceGet(key) # None)]_vars

\* a get answered null at the very instant a ttl of zero, coerced to one
\* second, ran out
C24_Witness ==
    /\ http.op = "get"
    /\ http.reply = None
    /\ http.key \in DOMAIN reference
    /\ reference[http.key].ttl_seconds = 0
    /\ ~reference[http.key].persistent
    /\ clock = reference[http.key].at + TicksPerSecond
    /\ http.key \notin DOMAIN cache

(***************************************************************************)
(* SpecFingerprint: POST /search/init and POST /search called with         *)
(* requests that differ in spelling, parameters and identity.              *)
(***************************************************************************)
InitReply(code, req, query_hash, canonical_query) ==
    [op |-> "init", code |-> code, req |-> req, query_hash |-> query_hash,
     canonical_query |-> canonical_query]

\* initialize_search
initialize_search(config, req) ==
    IF GuestBlocked(config, req) THEN InitReply(403, req, <<>>, <<>>)
    ELSE InitReply(200, req,
                   build_query_hash(req.query, req.products_k, req.reviews_per_product,
                                    FingerprintExtra(req)),
                   canonicalize_query(req.query))

FingerprintQueries ==
    {<<"a">>, <<" ", "A">>, <<"a", " ", "b">>, <<"A", " ", " ", "B", " ">>, <<"a", "b">>}

\* two users and a guest
FingerprintIdentities == {<<"u1", FALSE>>, <<"u2", FALSE>>, <<"u1", TRUE>>}

\* products_k and reviews_per_product
FingerprintParameters == {<<3, 3>>, <<4, 3>>, <<3, 0>>}

FingerprintRequests ==
    {Request(query, parameters[1], parameters[2], who[2], who[1], <<>>, FALSE) :
        query \in FingerprintQueries, parameters \in FingerprintParameters,
        who \in FingerprintIdentities}

InitFingerprint ==
    /\ cfg \in {Config(TRUE, TRUE, guest_hashed, "memory") : guest_hashed \in BOOLEAN}
    /\ jobs = EmptyMap
    /\ timelines = EmptyMap
    /\ streams = EmptyMap
    /\ cache = EmptyMap
    /\ clock = 1
    /\ tasks = <<>>
    /\ http = NoHttp
    /\ sse = NoSse
    /\ reference = EmptyMap

InitializeSearch(req) ==
    /\ http' = initialize_search(cfg, req)
    /\ UNCHANGED <<cfg, jobs, timelines, streams, cache, clock, tasks, sse, reference>>

\* the client sends the hash POST /search/init gave it, with a request of
\* its own
SubmitWithInitHash(req) ==
    /\ http.op = "init"
    /\ http.code = 200
    /\ Submit([req EXCEPT !.query_hash = http.query_hash], MaxLiveTasks)

NextFingerprint ==
    \/ \E req \in FingerprintRequests : InitializeSearch(req)
    \/ \E req \in FingerprintRequests : SubmitSearchLive(req)
    \/ \E req \in FingerprintRequests : SubmitWithInitHash(req)

SpecFingerprint == InitFingerprint /\ [][NextFingerprint]_vars

\* the words of a text: its maximal runs without white space, lower-cased
RECURSIVE Words(_, _)
Words(text, word) ==
    IF text = <<>> THEN (IF word = <<>> THEN <<>> ELSE <<word>>)
    ELSE IF IsSpace(Head(text))
         THEN (IF word = <<>> THEN <<>> ELSE <<word>>) \o Words(Tail(text), <<>>)
         ELSE Words(Tail(text), Append(word, Lower(Head(text))))

\* the texts differ at most in letter case, leading or trailing white space,
\* or the length of white-space runs
SameUpToCaseAndSpacing(a, b) == Words(a, <<>>) = Words(b, <<>>)

SameCaller(a, b) ==
    /\ a.subject = b.subject
    /\ a.guest = b.guest
    /\ a.products_k = b.products_k
    /\ a.reviews_per_product = b.reviews_per_product

\* C26: for a request answered by POST /search/init and a request accepted
\* by POST /search: with the same query, parameters and identity the two
\* hashes are equal; they stay equal when the queries differ only in letter
\* case, leading or trailing white space or the length of white-space runs;
\* they differ when the subject, the guest flag, products_k or
\* reviews_per_product differs.  A submission accepted right after a
\* /search/init reply under the hash of that reply has the caller and the
\* parameters of the /search/init request.
C26_InitAndSubmitAgree ==
    /\ [](http.op = "init" /\ http.code = 200 =>
            \A t \in DOMAIN tasks :
                /\ (SameCaller(http.req, tasks[t].req)
                        /\ SameUpToCaseAndSpacing(http.req.query, tasks[t].req.query))
                   => http.query_hash = tasks[t].hash
                /\ ~SameCaller(http.req, tasks[t].req) => http.query_hash # tasks[t].hash)
    /\ [][(/\ http.op = "init"
            /\ http.code = 200
            /\ Len(tasks') > Len(tasks)
            /\ tasks'[Len(tasks')].hash = http.query_hash)
           => SameCaller(http.req, tasks'[Len(tasks')].req)]_vars

\* /search/init has answered a request whose query is spelled differently
\* from that of an accepted submission of the same caller, with its hash
C26_Witness ==
    /\ http.op = "init"
    /\ http.code = 200
    /\ \E t \in DOMAIN tasks :
           /\ SameCaller(http.req, tasks[t].req)
           /\ http.req.query # tasks[t].req.query
           /\ canonicalize_query(http.req.query) = <<"a", " ", "b">>
           /\ http.query_hash = tasks[t].hash

(***************************************************************************)
(* SpecJobs: the registry under arbitrary calls, and the result endpoint.  *)
(***************************************************************************)
JobRequests ==
    {Request(<<"a">>, 3, rpp, FALSE, "u1", None, FALSE) : rpp \in {0, 3}}

JobHashes == {ComputedHash(req) : req \in JobRequests}

JobQueries == {req.query : req \in JobRequests} \cup {<<>>}

JobMetadatas == {JobMetadata(req) : req \in JobRequests} \cup {EmptyMap}

JobResults == {_dump_response(BuiltResponse(req.query)) : req \in JobRequests}
                  \cup {EmptyDict, InvalidDict}

JobErrors == {"engine down", ""}

InitJobs ==
    /\ cfg \in {Config(e, TRUE, TRUE, "memory") : e \in BOOLEAN}
    /\ jobs = EmptyMap
    /\ timelines = EmptyMap
    /\ streams = EmptyMap
    /\ cache = EmptyMap
    /\ clock = 1
    /\ tasks = <<>>
    /\ http = NoHttp
    /\ sse = NoSse
    /\ reference = EmptyMap

JobsMarkPending ==
    \E req \in JobRequests, q \in JobQueries, m \in JobMetadatas :
        /\ q \in {req.query, <<>>}
        /\ m \in {JobMetadata(req), EmptyMap}
        /\ jobs' = mark_pending(jobs, ComputedHash(req), q, m, clock)
        /\ UNCHANGED <<cfg, timelines, streams, cache, clock, tasks, http, sse, reference>>

JobsMarkCompleted ==
    \E h \in JobHashes, r \in JobResults :
        /\ jobs' = mark_completed(jobs, h, r, clock)
        /\ UNCHANGED <<cfg, timelines, streams, cache, clock, tasks, http, sse, reference>>

JobsMarkFailed ==
    \E h \in JobHashes, e \in JobErrors :
        /\ jobs' = mark_failed(jobs, h, e, clock)
        /\ UNCHANGED <<cfg, timelines, streams, cache, clock, tasks, http, sse, reference>>

JobsClearJob ==
    \E h \in JobHashes :
        /\ jobs' = clear_job(jobs, h)
        /\ UNCHANGED <<cfg, timelines, streams, cache, clock, tasks, http, sse, reference>>

JobsResetJobs ==
    /\ jobs' = reset_jobs(jobs)
    /\ UNCHANGED <<cfg, timelines, streams, cache, clock, tasks, http, sse, reference>>

\* the orchestrator stores a response under its per-request key
JobsCacheStore ==
    \E req \in JobRequests :
        /\ cfg.ENABLE_CACHE
        /\ cache' = Put(cache, ResponseCacheKey(req),
                        serialize_payload(_dump_response(BuiltResponse(req.query))))
        /\ UNCHANGED <<cfg, jobs, timelines, streams, clock, tasks, http, sse, reference>>

\* an entry expires or is deleted
JobsCacheExpire ==
    \E k \in DOMAIN cache :
        /\ cache' = Pop(cache, k)
        /\ UNCHANGED <<cfg, jobs, timelines, streams, clock, tasks, http, sse, reference>>

JobsGetResult ==
    \E h \in JobHashes :
        /\ http' = get_search_result(cfg, jobs, cache, h)
        /\ UNCHANGED <<cfg, jobs, timelines, streams, cache, clock, tasks, sse, reference>>

NextJobs ==
    \/ JobsMarkPending
    \/ JobsMarkCompleted
    \/ JobsMarkFailed
    \/ JobsClearJob
    \/ JobsResetJobs
    \/ JobsCacheStore
    \/ JobsCacheExpire
    \/ JobsGetResult

SpecJobs == InitJobs /\ [][NextJobs]_vars

(***************************************************************************)
(* C3: after any sequence of registry calls with non-null result and error *)
(* arguments, every record has a status among pending, completed and       *)
(* failed; a completed record has a result and no error; a failed record   *)
(* has an error.                                                           *)
(***************************************************************************)
C3_RecordInvariant ==
    \A h \in DOMAIN jobs :
        /\ jobs[h].status \in {"pending", "completed", "failed"}
        /\ jobs[h].status = "completed" =>
               (jobs[h].result # NoResult /\ jobs[h].error = None)
        /\ jobs[h].status = "failed" => jobs[h].error # None

\* a record completed with an empty mapping after it was pending, next to a
\* record that failed after it had completed
C3_Witness ==
    \E h1, h2 \in DOMAIN jobs :
        /\ h1 # h2
        /\ jobs[h1].status = "completed"
        /\ jobs[h1].result = EmptyDict
        /\ jobs[h1].metadata # EmptyMap
        /\ jobs[h2].status = "failed"
        /\ jobs[h2].result # NoResult

(***************************************************************************)
(* C6: GET /search/result/{h} answers from the job record, and from the    *)
(* per-request cache entry under the key recomputed from the record when   *)
(* the stored result is empty or invalid; it never changes the record.     *)
(***************************************************************************)
C6_StoredResultValid(job) == job.result.kind = "dict"

C6_CacheEntry(job) ==
    IF cfg.ENABLE_CACHE /\ job.query # <<>> /\ LoadCacheKey(job.query, job.metadata) \in DOMAIN cache
    THEN ParseResponse(deserialize_payload(cache[LoadCacheKey(job.query, job.metadata)]))
    ELSE NoResult

C6_Expected(h) ==
    IF h \notin DOMAIN jobs THEN <<404, "not_found", NoResult, None>>
    ELSE LET job == jobs[h]
         IN  CASE job.status = "pending" -> <<202, "pending", NoResult, None>>
               [] job.status = "failed" -> <<200, "failed", NoResult, job.error>>
               [] job.status = "completed" /\ C6_StoredResultValid(job) ->
                      <<200, "completed", ParseResponse(job.result), None>>
               [] job.status = "completed" /\ ~C6_StoredResultValid(job)
                                           /\ C6_CacheEntry(job) # NoResult ->
                      <<200, "completed", C6_CacheEntry(job), None>>
               [] OTHER -> <<500, "failed", NoResult, "Result unavailable">>

Str(text) == [str |-> text]

Bytes(octets) == [bytes |-> octets]

Num(n) == [num |-> n]

Dict(items) == [dict |-> items]

List(items) == [list |-> items]

IsStr(value) == "str" \in DOMAIN value

IsBytes(value) == "bytes" \in DOMAIN value

IsMapping(value) == "dict" \in DOMAIN value

IsList(value) == "list" \in DOMAIN value

\* str.lower() on the field names of the model
str_lower(name) ==
    CASE name = "Email" -> "email"
      [] name = "Prompt" -> "prompt"
      [] name = "Query" -> "query"
      [] OTHER -> name

\* bytes.decode("utf-8", errors="replace"): an octet that is not valid
\* UTF-8 becomes U+FFFD
decode_replace(octets) ==
    [i \in 1..Len(octets) |-> IF octets[i] = "0xff" THEN "U+FFFD" ELSE octets[i]]

ScrubberSettings(redact, truncate, passthrough, max_length, mask, hash_mask, debug) ==
    [redact_fields |-> redact, truncate_fields |-> truncate,
     passthrough_fields |-> passthrough, max_truncate_length |-> max_length,
     mask |-> mask, hash_mask |-> hash_mask, debug_truncation_enabled |-> debug]

\* settings used as given, their field names not lower-cased
normalized_as_given(settings) == settings

normalized(settings) ==
    [settings EXCEPT !.redact_fields = {str_lower(f) : f \in @},
                     !.truncate_fields = {str_lower(f) : f \in @},
                     !.passthrough_fields = {str_lower(f) : f \in @}]

truncate_text(text, max_length) ==
    IF max_length <= 0 THEN <<>>
    ELSE IF Len(text) <= max_length THEN text
    ELSE SubSeq(text, 1, max_length) \o <<"U+2026">>

_hash_value(value) == [hash |-> value]

Masking(normalised, child) ==
    IF normalised.hash_mask THEN _hash_value(child) ELSE Str(normalised.mask)

RECURSIVE _scrub(_, _, _)
_scrub(value, normalised, allow_truncation) ==
    IF IsMapping(value)
    THEN Dict([key \in DOMAIN value.dict |->
            LET child == value.dict[key]
                lower_key == str_lower(key)
            IN  IF lower_key \in normalised.passthrough_fields
                THEN _scrub(child, normalised, allow_truncation)
                ELSE IF lower_key \in normalised.redact_fields
                THEN Masking(normalised, child)
                ELSE IF lower_key \in normalised.truncate_fields
                THEN IF allow_truncation /\ IsStr(child)
                     THEN Str(truncate_text(child.str, normalised.max_truncate_length))
                     ELSE Masking(normalised, child)
                ELSE _scrub(child, normalised, allow_truncation)])
    ELSE IF IsList(value)
    THEN List([i \in DOMAIN value.list |->
                 _scrub(value.list[i], normalised, allow_truncation)])
    ELSE IF IsBytes(value)
    THEN Str(truncate_text(decode_replace(value.bytes), normalised.max_truncate_length))
    ELSE value

scrub_payload(payload, settings, debug_truncation_override) ==
    LET normalised == normalized(settings)
        allow_truncation == IF debug_truncation_override = None
                            THEN normalised.debug_truncation_enabled
                            ELSE debug_truncation_override = "True"
    IN  _scrub(payload, normalised, allow_truncation)

(***************************************************************************)
(* SpecScrubber: scrub_payload applied once to a payload of nested         *)
(* mappings and lists.  The field-name sets of the settings are disjoint   *)
(* after lower-casing, as in DEFAULT_TIMELINE_SCRUBBER.                    *)
(***************************************************************************)
ScrubMask == <<"*">>

ScrubLeaves ==
    {Str(<<"a">>), Str(<<"a", "b">>), Str(ScrubMask), Bytes(<<"a", "0xff">>), Num(1)}

ScrubFields == {"Email", "query", "prompt", "note"}

OneField(values) == {Dict(name :> value) : name \in ScrubFields, value \in values}

TwoFields(values) ==
    {Dict(pair[1] :> first @@ pair[2] :> second) :
        pair \in {<<"Email", "query">>, <<"Email", "note">>, <<"query", "prompt">>},
        first \in values, second \in values}

OneItem(values) == {List(<<value>>) : value \in values}

ScrubFlat == OneField(ScrubLeaves) \cup TwoFields(ScrubLeaves) \cup OneItem(ScrubLeaves)

ScrubNested == OneField(ScrubFlat) \cup OneItem(OneField(ScrubLeaves))

ScrubDeep == OneField(OneField(OneField(ScrubLeaves)) \cup OneItem(OneField(ScrubLeaves)))

ScrubPayloads == ScrubFlat \cup ScrubNested \cup ScrubDeep

ScrubSettings ==
    {ScrubberSettings({"Email"}, {"prompt"}, {"Query"}, max_length, ScrubMask, hash_mask, debug) :
        max_length \in {0, 1}, hash_mask \in BOOLEAN, debug \in BOOLEAN}

ScrubOverrides == {None, "True", "False"}

InitScrubber ==
    /\ cfg = Config(TRUE, TRUE, FALSE, "memory")
    /\ jobs = EmptyMap
    /\ timelines = EmptyMap
    /\ streams = EmptyMap
    /\ cache = EmptyMap
    /\ clock = 0
    /\ tasks = <<>>
    /\ sse = NoSse
    /\ reference = EmptyMap
    /\ \E payload \in ScrubPayloads, settings \in ScrubSettings, override \in ScrubOverrides :
          http = [op |-> "call", payload |-> payload, settings |-> settings,
                  override |-> override]

ScrubPayload ==
    /\ http.op = "call"
    /\ http' = [op |-> "scrub_payload", payload |-> http.payload,
                settings |-> http.settings, override |-> http.override,
                result |-> scrub_payload(http.payload, http.settings, http.override)]
    /\ UNCHANGED <<cfg, jobs, timelines, streams, cache, clock, tasks, sse, reference>>

NextScrubber == ScrubPayload

SpecScrubber == InitScrubber /\ [][NextScrubber]_vars


\* the fields reached along the same path in a payload and in its scrubbed
\* copy, each with its name, its value in the payload and its value in the copy
RECURSIVE FieldPairs(_, _)
FieldPairs(payload, scrubbed) ==
    IF IsMapping(payload) /\ IsMapping(scrubbed)
    THEN UNION {{<<name, payload.dict[name], scrubbed.dict[name]>>}
                    \cup FieldPairs(payload.dict[name], scrubbed.dict[name]) :
                name \in DOMAIN payload.dict \cap DOMAIN scrubbed.dict}
    ELSE IF IsList(payload) /\ IsList(scrubbed)
    THEN UNION {FieldPairs(payload.list[i], scrubbed.list[i]) :
                i \in DOMAIN payload.list \cap DOMAIN scrubbed.list}
    ELSE {}

\* a value the scrubber has nothing to do on: no bytes and no field to
\* redact or truncate at any depth
RECURSIVE Plain(_, _)
Plain(value, settings) ==
    IF IsMapping(value)
    THEN \A name \in DOMAIN value.dict :
            /\ str_lower(name) \notin {str_lower(f) : f \in settings.redact_fields}
            /\ str_lower(name) \notin {str_lower(f) : f \in settings.truncate_fields}
            /\ Plain(value.dict[name], settings)
    ELSE IF IsList(value)
    THEN \A i \in DOMAIN value.list : Plain(value.list[i], settings)
    ELSE ~IsBytes(value)

Redacted(name, settings) ==
    str_lower(name) \in {str_lower(f) : f \in settings.redact_fields}

PassedThrough(name, settings) ==
    str_lower(name) \in {str_lower(f) : f \in settings.passthrough_fields}

\* C27 as stated: in every scrubbed payload, no field to redact keeps its
\* original value, at any depth, and every passthrough field has the value it
\* had in the payload.
C27_ScrubbedAsStated ==
    http.op = "scrub_payload" =>
        \A field \in FieldPairs(http.payload, http.result) :
            /\ Redacted(field[1], http.settings) => field[3] # field[2]
            /\ PassedThrough(field[1], http.settings) => field[3] = field[2]

\* C27: in every scrubbed payload, a field to redact keeps its original value at
\* no depth, unless that value is the literal mask and hash_mask is off; and a
\* passthrough field has the value it had in the payload whenever that value
\* holds no bytes and no field to redact or truncate (the scrubber goes on
\* inside a passthrough field).
C27_Scrubbed ==
    http.op = "scrub_payload" =>
        \A field \in FieldPairs(http.payload, http.result) :
            /\ (Redacted(field[1], http.settings) /\ field[3] = field[2])
               => (~http.settings.hash_mask /\ field[2] = Str(http.settings.mask))
            /\ (PassedThrough(field[1], http.settings) /\ Plain(field[2], http.settings))
               => field[3] = field[2]

\* a field to redact inside a passthrough field came out masked, next to a
\* passthrough field that came out as it went in
C27_Witness ==
    /\ http.op = "scrub_payload"
    /\ \E outer \in FieldPairs(http.payload, http.result) :
          /\ PassedThrough(outer[1], http.settings)
          /\ outer[3] # outer[2]
          /\ \E inner \in FieldPairs(outer[2], outer[3]) :
                /\ Redacted(inner[1], http.settings)
                /\ inner[3] # inner[2]
    /\ \E field \in FieldPairs(http.payload, http.result) :
          /\ PassedThrough(field[1], http.settings)
          /\ field[3] = field[2]


(***************************************************************************)
(* SpecStream: the generator of GET /timeline/{hash} step by step, from    *)
(* one await or yield to the next, while events are published and the      *)
(* client may go away.  Monotonic time is counted in ticks of half a       *)
(* second and passes only where the code waits: asyncio.sleep lasts        *)
(* POLL_INTERVAL_SECONDS, a Redis read that finds nothing lasts            *)
(* TIMELINE_BLOCK_MS, everything else takes no time.                       *)
(***************************************************************************)
HEARTBEAT_INTERVAL_SECONDS == 15

TIMELINE_BLOCK_MS == 5000

HeartbeatTicks == HEARTBEAT_INTERVAL_SECONDS * TicksPerSecond

\* POLL_INTERVAL_SECONDS = 0.5
PollTicks == TicksPerSecond \div 2

BlockTicks == (TIMELINE_BLOCK_MS * TicksPerSecond) \div 1000

\* spans of time are counted up to here
LongestSpan == HeartbeatTicks + BlockTicks + 2 * PollTicks

Later(span, ticks) == IF span + ticks > LongestSpan THEN LongestSpan ELSE span + ticks

\* the generator before its first iteration; since_heartbeat is
\* time.monotonic() - last_heartbeat, pending the events of the batch not
\* yet yielded
StreamOpened(query_hash) ==
    [open |-> TRUE, query_hash |-> query_hash, last_id |-> <<>>, pc |-> "is_disconnected",
     pending |-> <<>>, since_heartbeat |-> 0, disconnected |-> FALSE]

\* what the generator did last and what it yielded doing it: nothing, a
\* heartbeat or an event
StreamStep(did, events, yielded) ==
    [op |-> "stream", did |-> did, events |-> events, yielded |-> yielded]

\* an observer's stopwatch: time since the later of the last heartbeat and
\* the last delivered batch, or since the stream was opened
Stopwatch(idle) == [idle |-> idle]

InitStream ==
    /\ cfg \in {Config(TRUE, TRUE, FALSE, adapter) : adapter \in {"memory", "redis"}}
    /\ jobs = EmptyMap
    /\ timelines = EmptyMap
    /\ streams = EmptyMap
    /\ cache = EmptyMap
    /\ clock = 1
    /\ tasks = <<>>
    /\ http = NoHttp
    /\ sse = StreamOpened(SseHash)
    /\ reference = Stopwatch(0)

StreamIsDisconnected_never_breaks ==
    /\ sse.open
    /\ sse.pc = "is_disconnected"
    /\ sse' = [sse EXCEPT !.pc = "read_timeline_events"]
    /\ http' = StreamStep("is_disconnected", <<>>, <<>>)
    /\ UNCHANGED <<cfg, jobs, timelines, streams, cache, clock, tasks, reference>>

\* while True: if await request.is_disconnected(): break
StreamIsDisconnected ==
    /\ sse.open
    /\ sse.pc = "is_disconnected"
    /\ IF sse.disconnected
       THEN /\ sse' = [sse EXCEPT !.open = FALSE, !.pc = "returned"]
            /\ http' = StreamStep("break", <<>>, <<>>)
       ELSE /\ sse' = [sse EXCEPT !.pc = "read_timeline_events"]
            /\ http' = StreamStep("is_disconnected", <<>>, <<>>)
    /\ UNCHANGED <<cfg, jobs, timelines, streams, cache, clock, tasks, reference>>

\* yield of one event: last_id = event.get("stream_id") or last_id
YieldEvent(gen, events) ==
    [gen EXCEPT !.last_id = events[1].stream_id, !.pending = Tail(events), !.pc = "yield"]

\* when the batch is out the observer sees the batch delivered
BatchOut(events, idle) == IF Len(events) = 1 THEN 0 ELSE idle

\* the read, and up to the first yield or to the sleep
StreamRead(failed) ==
    /\ sse.open
    /\ sse.pc = "read_timeline_events"
    /\ LET events == read_timeline_events(cfg.adapter, streams, timelines, sse.query_hash,
                                          sse.last_id, TIMELINE_BATCH_SIZE, failed)
           blocked == IF cfg.adapter = "redis" /\ ~failed /\ events = <<>>
                      THEN BlockTicks ELSE 0
           since == Later(sse.since_heartbeat, blocked)
       IN  IF events # <<>>
           THEN /\ sse' = YieldEvent(sse, events)
                /\ http' = StreamStep("read", events, <<"event", events[1].event_id>>)
                /\ reference' = Stopwatch(BatchOut(events, reference.idle))
           ELSE IF since >= HeartbeatTicks
           THEN /\ sse' = [sse EXCEPT !.pc = "yield_heartbeat", !.since_heartbeat = since]
                /\ http' = StreamStep("read", events, <<"heartbeat">>)
                /\ reference' = Stopwatch(0)
           ELSE /\ sse' = [sse EXCEPT !.pc = "sleep", !.since_heartbeat = since]
                /\ http' = StreamStep("read", events, <<>>)
                /\ reference' = Stopwatch(Later(reference.idle, blocked))
    /\ UNCHANGED <<cfg, jobs, timelines, streams, cache, clock, tasks>>

\* the consumer asks for the next item: the for loop goes on, or ends with
\* last_heartbeat = time.monotonic() and continue; after a heartbeat,
\* last_heartbeat = now
StreamResume_keeps_last_heartbeat ==
    /\ sse.open
    /\ sse.pc \in {"yield", "yield_heartbeat"}
    /\ IF sse.pc = "yield" /\ sse.pending # <<>>
       THEN /\ sse' = YieldEvent(sse, sse.pending)
            /\ http' = StreamStep("resume", <<>>, <<"event", sse.pending[1].event_id>>)
            /\ reference' = Stopwatch(BatchOut(sse.pending, reference.idle))
       ELSE IF sse.pc = "yield"
       THEN /\ sse' = [sse EXCEPT !.pc = "is_disconnected"]
            /\ http' = StreamStep("resume", <<>>, <<>>)
            /\ reference' = reference
       ELSE /\ sse' = [sse EXCEPT !.pc = "sleep", !.since_heartbeat = 0]
            /\ http' = StreamStep("resume", <<>>, <<>>)
            /\ reference' = reference
    /\ UNCHANGED <<cfg, jobs, timelines, streams, cache, clock, tasks>>

StreamResume ==
    /\ sse.open
    /\ sse.pc \in {"yield", "yield_heartbeat"}
    /\ IF sse.pc = "yield" /\ sse.pending # <<>>
       THEN /\ sse' = YieldEvent(sse, sse.pending)
            /\ http' = StreamStep("resume", <<>>, <<"event", sse.pending[1].event_id>>)
            /\ reference' = Stopwatch(BatchOut(sse.pending, reference.idle))
       ELSE IF sse.pc = "yield"
       THEN /\ sse' = [sse EXCEPT !.pc = "is_disconnected", !.since_heartbeat = 0]
            /\ http' = StreamStep("resume", <<>>, <<>>)
            /\ reference' = reference
       ELSE /\ sse' = [sse EXCEPT !.pc = "sleep", !.since_heartbeat = 0]
            /\ http' = StreamStep("resume", <<>>, <<>>)
            /\ reference' = reference
    /\ UNCHANGED <<cfg, jobs, timelines, streams, cache, clock, tasks>>

\* await asyncio.sleep(POLL_INTERVAL_SECONDS) returns
StreamSleep ==
    /\ sse.open
    /\ sse.pc = "sleep"
    /\ sse' = [sse EXCEPT !.pc = "is_disconnected",
                          !.since_heartbeat = Later(@, PollTicks)]
    /\ http' = StreamStep("sleep", <<>>, <<>>)
    /\ reference' = Stopwatch(Later(reference.idle, PollTicks))
    /\ UNCHANGED <<cfg, jobs, timelines, streams, cache, clock, tasks>>

\* the response task is cancelled once the client is gone: CancelledError
\* at the await or yield the generator is suspended in, logged and re-raised
StreamCancelled ==
    /\ sse.open
    /\ sse.disconnected
    /\ sse' = [sse EXCEPT !.open = FALSE, !.pc = "raised"]
    /\ http' = StreamStep("CancelledError", <<>>, <<>>)
    /\ UNCHANGED <<cfg, jobs, timelines, streams, cache, clock, tasks, reference>>

\* the client goes away: request.is_disconnected() is true from now on
StreamDisconnect ==
    /\ sse.open
    /\ ~sse.disconnected
    /\ sse' = [sse EXCEPT !.disconnected = TRUE]
    /\ UNCHANGED <<cfg, jobs, timelines, streams, cache, clock, tasks, http, reference>>

NextStream ==
    \/ \E fault \in TimelineFaults(cfg) : TimelinePublish(SseHash, fault)
    \/ StreamIsDisconnected
    \/ \E failed \in ReadFaults(cfg) : StreamRead(failed)
    \/ StreamResume
    \/ StreamSleep
    \/ StreamCancelled
    \/ StreamDisconnect

SpecStream == InitStream /\ [][NextStream]_vars

\* every await of the generator returns; a generator suspended in a yield is
\* resumed or, the client gone, cancelled there.  Cancellation anywhere else
\* may happen but is not relied on.
SpecStreamLive ==
    /\ InitStream
    /\ [][NextStream]_vars
    /\ WF_vars(StreamIsDisconnected)
    /\ WF_vars(\E failed \in ReadFaults(cfg) : StreamRead(failed))
    /\ WF_vars(StreamSleep)
    /\ WF_vars(StreamResume \/ (sse.pc \in {"yield", "yield_heartbeat"} /\ StreamCancelled))


\* the events of the hash the generator has not read yet
Unread == read_timeline_events(cfg.adapter, streams, timelines, sse.query_hash,
                               sse.last_id, TIMELINE_BATCH_SIZE, FALSE)

\* C28: an iteration of the generator that starts once the client is
\* disconnected yields nothing, reads no timeline and ends the generator; an
\* ended generator does nothing more; and, every read and sleep returning, a
\* disconnect is always eventually followed by the end of the generator.
C28_DisconnectEndsGenerator ==
    /\ [][(sse.open /\ sse.disconnected /\ sse.pc = "is_disconnected" /\ sse' # sse)
            => /\ ~sse'.open
               /\ http'.op = "stream"
               /\ http'.did \in {"break", "CancelledError"}
               /\ http'.yielded = <<>>]_vars
    /\ [][~sse.open => sse' = sse]_vars
    /\ (sse.open /\ sse.disconnected) ~> ~sse.open

\* the generator left its loop at the disconnect check with events still unread
C28_Witness ==
    /\ ~sse.open
    /\ sse.disconnected
    /\ sse.pc = "returned"
    /\ http.op = "stream"
    /\ http.did = "break"
    /\ Unread # <<>>

\* C29: with the client connected on the in-memory backend, a heartbeat is
\* yielded only in an iteration whose read returned no events and only 15 s or
\* more after the later of the last heartbeat and the last delivered batch; and
\* that instant is never more than 15 s and one poll interval in the past.
C29_Heartbeat ==
    /\ [][(cfg.adapter = "memory" /\ ~sse.disconnected
              /\ sse.pc # "yield_heartbeat" /\ sse'.pc = "yield_heartbeat")
            => /\ Unread = <<>>
               /\ http'.yielded = <<"heartbeat">>
               /\ reference.idle >= HeartbeatTicks]_vars
    /\ [][(cfg.adapter = "memory" /\ ~sse.disconnected
              /\ http' # http /\ http'.op = "stream" /\ http'.yielded = <<"heartbeat">>)
            => sse'.pc = "yield_heartbeat"]_vars
    /\ []((cfg.adapter = "memory" /\ sse.open /\ ~sse.disconnected)
            => reference.idle <= HeartbeatTicks + PollTicks)

\* a heartbeat went out after a batch had been delivered
C29_Witness ==
    /\ cfg.adapter = "memory"
    /\ sse.open
    /\ ~sse.disconnected
    /\ sse.pc = "yield_heartbeat"
    /\ sse.last_id # <<>>
    /\ http.op = "stream"
    /\ http.yielded = <<"heartbeat">>


(***************************************************************************)
(* Refresh-token revocation (security/refresh_store.py, InMemoryAdapter)   *)
(* and the bearer-token dependency (auth/dependencies.py).  A refresh hash *)
(* is a SHA-256 hex digest and never empty.  time.time() is the clock, in  *)
(* ticks; every adapter method runs under the adapter's lock in one step.  *)
(***************************************************************************)
MaxRefreshClock == 6

RefreshAdapter(sessions, blacklist) == [_sessions |-> sessions, _blacklist |-> blacklist]

\* what an adapter method returns and the adapter it leaves
RefreshReply(adapter, result) == [adapter |-> adapter, result |-> result]

\* RefreshStore._resolve_ttl: no override (<<>>) or a non-positive one gives
\* the default
_resolve_ttl(ttl_seconds, default_seconds) ==
    IF ttl_seconds = <<>> THEN default_seconds
    ELSE IF ttl_seconds[1] <= 0 THEN default_seconds
    ELSE ttl_seconds[1]

InMemoryAdapter_persist(adapter, now, hash, record, ttl_seconds) ==
    [adapter EXCEPT !._sessions =
        Put(@, hash, [record |-> record, expiresAt |-> now + ttl_seconds * TicksPerSecond])]

InMemoryAdapter_revoke(adapter, now, hash, ttl_seconds) ==
    [adapter EXCEPT !._blacklist = Put(@, hash, now + ttl_seconds * TicksPerSecond)]

InMemoryAdapter_is_revoked_false_at_expiry(adapter, now, hash) ==
    IF hash \notin DOMAIN adapter._blacklist
    THEN RefreshReply(adapter, FALSE)
    ELSE IF now >= adapter._blacklist[hash]
    THEN RefreshReply([adapter EXCEPT !._blacklist = Pop(@, hash)], FALSE)
    ELSE RefreshReply(adapter, TRUE)

InMemoryAdapter_is_revoked(adapter, now, hash) ==
    IF hash \notin DOMAIN adapter._blacklist
    THEN RefreshReply(adapter, FALSE)
    ELSE IF now > adapter._blacklist[hash]
    THEN RefreshReply([adapter EXCEPT !._blacklist = Pop(@, hash)], FALSE)
    ELSE RefreshReply(adapter, TRUE)

\* store: the RefreshStore, its adapter and its two default TTLs
register_refresh_session(store, now, refresh_hash, record, previous_hash, ttl_seconds) ==
    LET ttl == _resolve_ttl(ttl_seconds, store._refresh_ttl_default)
        persisted == InMemoryAdapter_persist(store._adapter, now, refresh_hash, record, ttl)
    IN  [store EXCEPT !._adapter =
            IF previous_hash # None
            THEN InMemoryAdapter_revoke(persisted, now, previous_hash,
                                        store._blacklist_ttl_default)
            ELSE persisted]

revoke_refresh_hash(store, now, refresh_hash, ttl_seconds) ==
    [store EXCEPT !._adapter =
        InMemoryAdapter_revoke(@, now, refresh_hash,
                               _resolve_ttl(ttl_seconds, store._blacklist_ttl_default))]

is_refresh_hash_revoked(store, now, refresh_hash) ==
    InMemoryAdapter_is_revoked(store._adapter, now, refresh_hash)

\* a bearer token: verifies (signature, audience, issuer, exp, sub) or not,
\* and carries a rid claim or none
BearerToken(verifies, rid) == [verifies |-> verifies, rid |-> rid]

\* _decode_token as require_authenticated_user runs it: the status of the
\* reply of the dependency and the adapter it leaves
_decode_token(store, now, token) ==
    IF ~token.verifies THEN RefreshReply(store._adapter, 401)
    ELSE IF token.rid # None
    THEN LET revoked == is_refresh_hash_revoked(store, now, token.rid)
         IN  RefreshReply(revoked.adapter, IF revoked.result THEN 401 ELSE 200)
    ELSE RefreshReply(store._adapter, 200)


(***************************************************************************)
(* SpecRefresh: a RefreshStore on the in-memory adapter under arbitrary    *)
(* registrations, revocations and queries, and bearer tokens presented to  *)
(* require_authenticated_user, while time passes.                          *)
(***************************************************************************)
RefreshHashes == {"p", "q"}

RefreshTtls == {<<>>, <<0>>, <<1>>}

\* the hash the registrations register
RegisteredHash == "q"

RefreshTokens ==
    {BearerToken(verifies, rid) : verifies \in BOOLEAN, rid \in RefreshHashes \cup {None}}

\* the store of test_revoked_refresh_hash_blocks_until_blacklist_ttl_expires,
\* with the refresh TTL shortened
RefreshStoreOf(adapter) ==
    [_adapter |-> adapter, _refresh_ttl_default |-> 3, _blacklist_ttl_default |-> 2]

\* the window of the latest revocation of a hash
Window(at, ttl_seconds) == [at |-> at, ttl_seconds |-> ttl_seconds]

InitRefresh ==
    /\ cfg = Config(TRUE, TRUE, FALSE, "memory")
    /\ jobs = EmptyMap
    /\ timelines = EmptyMap
    /\ streams = EmptyMap
    /\ cache = RefreshAdapter(EmptyMap, EmptyMap)
    /\ clock = 0
    /\ tasks = <<>>
    /\ http = NoHttp
    /\ sse = NoSse
    /\ reference = EmptyMap

\* reply: what the call was and what it answered
RefreshCall(reply, adapter, windows) ==
    /\ cache' = adapter
    /\ reference' = windows
    /\ http' = reply
    /\ UNCHANGED <<cfg, jobs, timelines, streams, clock, tasks, sse>>

RefreshRegister(refresh_hash, previous_hash, ttl_seconds) ==
    RefreshCall([op |-> "register_refresh_session", hash |-> refresh_hash,
                 previous_hash |-> previous_hash],
                register_refresh_session(RefreshStoreOf(cache), clock, refresh_hash, "record",
                                         previous_hash, ttl_seconds)._adapter,
                IF previous_hash # None
                THEN Put(reference, previous_hash,
                         Window(clock, RefreshStoreOf(cache)._blacklist_ttl_default))
                ELSE reference)

RefreshRevoke(refresh_hash, ttl_seconds) ==
    RefreshCall([op |-> "revoke_refresh_hash", hash |-> refresh_hash],
                revoke_refresh_hash(RefreshStoreOf(cache), clock, refresh_hash,
                                    ttl_seconds)._adapter,
                Put(reference, refresh_hash,
                    Window(clock, IF ttl_seconds \in {<<>>, <<0>>}
                                  THEN RefreshStoreOf(cache)._blacklist_ttl_default
                                  ELSE ttl_seconds[1])))

RefreshIsRevoked(refresh_hash) ==
    \E reply \in {is_refresh_hash_revoked(RefreshStoreOf(cache), clock, refresh_hash)} :
        RefreshCall([op |-> "is_refresh_hash_revoked", hash |-> refresh_hash,
                     revoked |-> reply.result],
                    reply.adapter, reference)

\* an authenticated endpoint is called with the token
RefreshAuthenticate(token) ==
    \E reply \in {_decode_token(RefreshStoreOf(cache), clock, token)} :
        RefreshCall([op |-> "require_authenticated_user", token |-> token,
                     code |-> reply.result],
                    reply.adapter, reference)

RefreshTick ==
    /\ clock < MaxRefreshClock
    /\ clock' = clock + 1
    /\ UNCHANGED <<cfg, jobs, timelines, streams, cache, tasks, http, sse, reference>>

NextRefresh ==
    \/ \E previous_hash \in RefreshHashes \cup {None} :
          RefreshRegister(RegisteredHash, previous_hash, <<>>)
    \/ \E refresh_hash \in RefreshHashes, ttl_seconds \in RefreshTtls :
          RefreshRevoke(refresh_hash, ttl_seconds)
    \/ \E refresh_hash \in RefreshHashes : RefreshIsRevoked(refresh_hash)
    \/ \E token \in RefreshTokens : RefreshAuthenticate(token)
    \/ RefreshTick

SpecRefresh == InitRefresh /\ [][NextRefresh]_vars

\* the latest revocation of the hash has its window open now
InWindow(refresh_hash) ==
    /\ refresh_hash \in DOMAIN reference
    /\ clock <= reference[refresh_hash].at
                    + reference[refresh_hash].ttl_seconds * TicksPerSecond

IsRevokedNow(adapter, refresh_hash) ==
    is_refresh_hash_revoked(RefreshStoreOf(adapter), clock, refresh_hash).result

\* is_refresh_hash_revoked is true exactly within the window of the latest
\* revocation, and a verifying token with that rid gets 401 exactly then
RevocationWindow ==
    /\ [](\A refresh_hash \in RefreshHashes :
            IsRevokedNow(cache, refresh_hash) <=> InWindow(refresh_hash))
    /\ [][(http'.op = "require_authenticated_user" /\ clock' = clock
              /\ http'.token.verifies /\ http'.token.rid # None)
            => /\ http'.code \in {200, 401}
               /\ http'.code = 401 <=> InWindow(http'.token.rid)]_vars

\* the registration left the registered hash as revoked as it was
RegisteredAsBefore ==
    IsRevokedNow(cache', http'.hash) <=> IsRevokedNow(cache, http'.hash)

Spawned == tasks'[Len(tasks')]

\* C31: when a POST /search for h is accepted, the record of h is pending
\* with no result and no error whatever it was before, the timeline of h is
\* cleared, and the task spawned for the submission has not started: it has
\* published nothing and written no job state; nothing but the record and the
\* timeline of h has changed.
C31_SubmitOrder ==
    [][Len(tasks') > Len(tasks)
          => /\ http'.op = "submit"
             /\ http'.code = 202
             /\ Spawned.hash \in DOMAIN jobs'
             /\ jobs'[Spawned.hash].status = "pending"
             /\ jobs'[Spawned.hash].result = NoResult
             /\ jobs'[Spawned.hash].error = None
             /\ EventsOf(timelines', Spawned.hash) = <<>>
             /\ Spawned.pc = "start"
             /\ ~Spawned.marked
             /\ ~Spawned.announced
             /\ \A h \in (DOMAIN jobs) \ {Spawned.hash} :
                    h \in DOMAIN jobs' /\ jobs'[h] = jobs[h]
             /\ \A h \in (DOMAIN timelines) \ {Spawned.hash} :
                    EventsOf(timelines', h) = EventsOf(timelines, h)
             /\ \A t \in DOMAIN tasks : tasks'[t] = tasks[t]]_vars

\* a submission has just reset the record a finished job had marked
\* completed, and another one the record a job had marked failed
C31_Witness ==
    /\ http.op = "submit"
    /\ http.code = 202
    /\ Len(tasks) >= 2
    /\ tasks[Len(tasks)].pc = "start"
    /\ jobs[tasks[Len(tasks)].hash].status = "pending"
    /\ EventsOf(timelines, tasks[Len(tasks)].hash) = <<>>
    /\ \E t \in 1..(Len(tasks) - 1) :
          /\ tasks[t].hash = tasks[Len(tasks)].hash
          /\ tasks[t].pc = "done"
          /\ tasks[t].marked


(***************************************************************************)
(* SpecRegistry: the registry alone, called with any hash, query,          *)
(* metadata, result and error; http keeps the arguments of the last call.  *)
(***************************************************************************)
MaxRegistryClock == 2

RegistryHashes == {"h1", "h2"}

RegistryQueries == {<<>>, <<"a">>, <<"b">>}

\* no mapping or an empty one, one key, and two keys of which one is shared
RegistryMetadatas ==
    {EmptyMap, [guest |-> TRUE], [guest |-> FALSE, subject |-> "u1"]}

RegistryResults == {EmptyDict, _dump_response(BuiltResponse(<<"a">>))}

RegistryErrors == {"engine down", "timeout"}

RegistryCall(op, query_hash, query, metadata, result, error) ==
    [op |-> op, hash |-> query_hash, query |-> query, metadata |-> metadata,
     result |-> result, error |-> error]

InitRegistry ==
    /\ cfg = Config(TRUE, TRUE, TRUE, "memory")
    /\ jobs = EmptyMap
    /\ timelines = EmptyMap
    /\ streams = EmptyMap
    /\ cache = EmptyMap
    /\ clock = 1
    /\ tasks = <<>>
    /\ http = RegistryCall("none", "", <<>>, EmptyMap, NoResult, None)
    /\ sse = NoSse
    /\ reference = EmptyMap

RegistryMarkPending ==
    \E h \in RegistryHashes, q \in RegistryQueries, m \in RegistryMetadatas :
        /\ jobs' = mark_pending(jobs, h, q, m, clock)
        /\ http' = RegistryCall("mark_pending", h, q, m, NoResult, None)
        /\ UNCHANGED <<cfg, timelines, streams, cache, clock, tasks, sse, reference>>

RegistryMarkCompleted ==
    \E h \in RegistryHashes, r \in RegistryResults :
        /\ jobs' = mark_completed(jobs, h, r, clock)
        /\ http' = RegistryCall("mark_completed", h, <<>>, EmptyMap, r, None)
        /\ UNCHANGED <<cfg, timelines, streams, cache, clock, tasks, sse, reference>>

RegistryMarkFailed ==
    \E h \in RegistryHashes, e \in RegistryErrors :
        /\ jobs' = mark_failed(jobs, h, e, clock)
        /\ http' = RegistryCall("mark_failed", h, <<>>, EmptyMap, NoResult, e)
        /\ UNCHANGED <<cfg, timelines, streams, cache, clock, tasks, sse, reference>>

RegistryClearJob ==
    \E h \in RegistryHashes :
        /\ jobs' = clear_job(jobs, h)
        /\ http' = RegistryCall("clear_job", h, <<>>, EmptyMap, NoResult, None)
        /\ UNCHANGED <<cfg, timelines, streams, cache, clock, tasks, sse, reference>>

RegistryTick ==
    /\ clock < MaxRegistryClock
    /\ clock' = clock + 1
    /\ UNCHANGED <<cfg, jobs, timelines, streams, cache, tasks, http, sse, reference>>

NextRegistry ==
    \/ RegistryMarkPending
    \/ RegistryMarkCompleted
    \/ RegistryMarkFailed
    \/ RegistryClearJob
    \/ RegistryTick

SpecRegistry == InitRegistry /\ [][NextRegistry]_vars

\* the step is a call of op (the clock moves in steps of its own)
RegistryCalled(op) == http'.op = op /\ clock' = clock

\* the mapping old with the pairs of new written over it, key by key
Merged(old, new, result) ==
    /\ DOMAIN result = (DOMAIN old) \cup (DOMAIN new)
    /\ \A k \in DOMAIN new : result[k] = new[k]
    /\ \A k \in (DOMAIN old) \ (DOMAIN new) : result[k] = old[k]

\* C32: mark_pending(h, query, metadata) on an existing record sets status
\* pending, result and error null, keeps created_at, replaces the query only
\* when the new query is non-empty, and leaves as metadata the old mapping
\* updated with the new one; on an unknown h it creates a pending record with
\* exactly the given query and metadata.
C32_MarkPending ==
    [][RegistryCalled("mark_pending")
          => /\ http'.hash \in DOMAIN jobs'
             /\ jobs'[http'.hash].status = "pending"
             /\ jobs'[http'.hash].result = NoResult
             /\ jobs'[http'.hash].error = None
             /\ IF http'.hash \in DOMAIN jobs
                THEN /\ jobs'[http'.hash].created_at = jobs[http'.hash].created_at
                     /\ jobs'[http'.hash].query =
                            IF Len(http'.query) > 0 THEN http'.query
                            ELSE jobs[http'.hash].query
                     /\ Merged(jobs[http'.hash].metadata, http'.metadata,
                               jobs'[http'.hash].metadata)
                ELSE /\ jobs'[http'.hash].query = http'.query
                     /\ jobs'[http'.hash].metadata = http'.metadata
                     /\ jobs'[http'.hash].created_at = clock]_vars

\* a failed record with a result, created earlier with two metadata keys, has
\* just been reset with an empty query and a mapping of one of the keys, and
\* keeps the other key
C32_Witness ==
    /\ http.op = "mark_pending"
    /\ http.query = <<>>
    /\ http.metadata = [guest |-> TRUE]
    /\ http.hash \in DOMAIN jobs
    /\ jobs[http.hash].status = "pending"
    /\ jobs[http.hash].query = <<"b">>
    /\ jobs[http.hash].metadata = [guest |-> TRUE, subject |-> "u1"]
    /\ jobs[http.hash].created_at < jobs[http.hash].updated_at

\* every record but that of the call's hash is as before
OtherRecordsKept ==
    /\ (DOMAIN jobs') \ {http'.hash} = (DOMAIN jobs) \ {http'.hash}
    /\ \A h \in (DOMAIN jobs) \ {http'.hash} : jobs'[h] = jobs[h]

\* the record the call finds, or the one it creates for an unknown hash
Found(status) ==
    IF http'.hash \in DOMAIN jobs THEN jobs[http'.hash]
    ELSE [query |-> <<>>, status |-> status, created_at |-> clock,
          updated_at |-> clock, result |-> NoResult, error |-> None,
          metadata |-> EmptyMap]

\* C33: mark_failed(h, e) changes only status, error and updated_at of the
\* record of h, and mark_completed(h, r) only status, result, error (null)
\* and updated_at; result (for mark_failed), query, metadata and created_at
\* are kept; for an unknown h each creates a record with empty query and
\* empty metadata; the records of the other hashes are untouched.
C33_MarkFrame ==
    [][/\ RegistryCalled("mark_failed")
          => /\ OtherRecordsKept
             /\ jobs'[http'.hash] =
                    [Found("failed") EXCEPT !.status = "failed",
                                            !.error = http'.error,
                                            !.updated_at = clock]
       /\ RegistryCalled("mark_completed")
          => /\ OtherRecordsKept
             /\ jobs'[http'.hash] =
                    [Found("completed") EXCEPT !.status = "completed",
                                               !.result = http'.result,
                                               !.error = None,
                                               !.updated_at = clock]]_vars

\* a completed record with query and metadata has just been marked failed
\* and keeps its result, beside a record of another hash
C33_Witness ==
    /\ http.op = "mark_failed"
    /\ DOMAIN jobs = RegistryHashes
    /\ jobs[http.hash].status = "failed"
    /\ jobs[http.hash].result = _dump_response(BuiltResponse(<<"a">>))
    /\ jobs[http.hash].query = <<"a">>
    /\ jobs[http.hash].metadata = [guest |-> TRUE]
    /\ jobs[http.hash].created_at < jobs[http.hash].updated_at


(***************************************************************************)
(* The catalogue's writers with an adapter whose writes may raise          *)
(* (core/search_service.py 464-580, 651-670).  A call in progress is       *)
(* [st, c, hit]: st "raise" once an error has left the method, c the cache *)
(* so far, hit whether the adapter has raised on a write of this call.     *)
(* fails names the writes on which the adapter raises; guarded says that   *)
(* the write stands in a try whose handler re-raises unless fail_open.     *)
(***************************************************************************)
Writing(c) == [st |-> "ok", c |-> c, hit |-> FALSE]

\* await self.cache.set(key, value, ttl) / set_persistent(key, value)
CacheSet(config, w, key, value, failed, guarded) ==
    IF w.st = "raise" THEN w
    ELSE IF failed
    THEN [st |-> IF guarded /\ config.CACHE_FAIL_OPEN THEN "ok" ELSE "raise",
          c |-> w.c, hit |-> TRUE]
    ELSE [w EXCEPT !.c = Put(w.c, key, value)]

\* await self.cache.delete(key)
CacheDelete(config, w, key, failed, guarded) ==
    IF w.st = "raise" THEN w
    ELSE IF failed
    THEN [st |-> IF guarded /\ config.CACHE_FAIL_OPEN THEN "ok" ELSE "raise",
          c |-> w.c, hit |-> TRUE]
    ELSE [w EXCEPT !.c = Pop(w.c, key)]

\* _write_precomputed_index: the set stands outside any try
_write_precomputed_index(config, w, index, fails) ==
    CacheSet(config, w, build_precomputed_index_key, serialize_payload(index),
             "index" \in fails, FALSE)

\* _write_canonical_index
_write_canonical_index(config, w, index, fails) ==
    CacheSet(config, w, build_canonical_index_key, serialize_payload(index),
             "canonical-index" \in fails, TRUE)

\* store_precomputed_response over the failing adapter: no write is guarded
StorePrecomputedWrites(config, c, slug, query, response, fails) ==
    LET canonical_query == canonicalize_query(query)
        slug_key == build_precomputed_query_key(canonical_query)
        w1 == CacheSet(config, Writing(c), build_precomputed_payload_key(slug),
                       serialize_payload(_dump_response(response)),
                       "payload" \in fails, FALSE)
        w2 == CacheSet(config, w1, slug_key, SlugBlob(slug), "slug" \in fails, FALSE)
        index == Put(LoadIndex(w2.c, build_precomputed_index_key), slug,
                     [query |-> canonical_query, hash |-> slug_key])
    IN  _write_precomputed_index(config, w2, index, fails)

\* store_canonical_response over the failing adapter
StoreCanonicalWrites(config, c, slug, query, response, fails) ==
    LET canonical_query == canonicalize_query(query)
        canonical_slug_key == build_canonical_query_key(canonical_query)
        w1 == CacheSet(config, Writing(c), build_canonical_payload_key(slug),
                       serialize_payload(_dump_response(response)),
                       "canonical-payload" \in fails, TRUE)
        w2 == CacheSet(config, w1, canonical_slug_key, SlugBlob(slug),
                       "canonical-slug" \in fails, TRUE)
        index == Put(LoadIndex(w2.c, build_canonical_index_key), slug,
                     [query |-> canonical_query, hash |-> canonical_slug_key])
    IN  _write_canonical_index(config, w2, index, fails)

\* delete_precomputed_response(slug) over the failing adapter
DeleteWrites(config, c, slug, fails) ==
    LET index == LoadIndex(c, build_precomputed_index_key)
        canonical_index == LoadIndex(c, build_canonical_index_key)
        canonical_query ==
            IF slug \in DOMAIN canonical_index THEN canonical_index[slug].query
            ELSE IF slug \in DOMAIN index THEN index[slug].query
            ELSE <<>>
        w1 == CacheDelete(config, Writing(c), build_precomputed_payload_key(slug),
                          "payload" \in fails, TRUE)
        w2 == IF canonical_query # <<>>
              THEN CacheDelete(config, w1, build_precomputed_query_key(canonical_query),
                               "slug" \in fails, TRUE)
              ELSE w1
        w3 == IF canonical_query # <<>>
              THEN CacheDelete(config, w2, build_canonical_query_key(canonical_query),
                               "canonical-slug" \in fails, TRUE)
              ELSE w2
        w4 == CacheDelete(config, w3, build_canonical_payload_key(slug),
                          "canonical-payload" \in fails, TRUE)
        w5 == IF slug \in DOMAIN index
              THEN _write_precomputed_index(config, w4, Pop(index, slug), fails)
              ELSE w4
    IN  IF slug \in DOMAIN canonical_index
        THEN _write_canonical_index(config, w5, Pop(canonical_index, slug), fails)
        ELSE w5

(***************************************************************************)
(* SpecWrites: the three writers called in any order, the adapter raising  *)
(* on any of the writes of a call.                                         *)
(***************************************************************************)
WriteSlugs == {"s1", "s2"}

WriteQueries == {<<"a">>}

WriteResponse == SearchResponse(<<"a">>, 1)

PrecomputedWrites == {"payload", "slug", "index"}

CanonicalWrites == {"canonical-payload", "canonical-slug", "canonical-index"}

InitWrites ==
    /\ cfg \in {Config(TRUE, fail_open, FALSE, "kv") : fail_open \in BOOLEAN}
    /\ jobs = EmptyMap
    /\ timelines = EmptyMap
    /\ streams = EmptyMap
    /\ cache = EmptyMap
    /\ clock = 1
    /\ tasks = <<>>
    /\ http = [op |-> "none", st |-> "ok", hit |-> FALSE, fails |-> {}]
    /\ sse = NoSse
    /\ reference = EmptyMap

\* the call leaves the cache as far as it was written
WritesCall(op, w, fails) ==
    /\ cache' = w.c
    /\ http' = [op |-> op, st |-> w.st, hit |-> w.hit, fails |-> fails]
    /\ UNCHANGED <<cfg, jobs, timelines, streams, clock, tasks, sse, reference>>

WritesStorePrecomputed ==
    \E slug \in WriteSlugs, query \in WriteQueries, fails \in SUBSET PrecomputedWrites :
        WritesCall("store_precomputed_response",
                   StorePrecomputedWrites(cfg, cache, slug, query, WriteResponse, fails),
                   fails)

WritesStoreCanonical ==
    \E slug \in WriteSlugs, query \in WriteQueries, fails \in SUBSET CanonicalWrites :
        WritesCall("store_canonical_response",
                   StoreCanonicalWrites(cfg, cache, slug, query, WriteResponse, fails),
                   fails)

WritesDelete ==
    \E slug \in WriteSlugs, fails \in SUBSET (PrecomputedWrites \cup CanonicalWrites) :
        /\ Cardinality(fails) <= 1
        /\ WritesCall("delete_precomputed_response",
                      DeleteWrites(cfg, cache, slug, fails), fails)

NextWrites ==
    \/ WritesStorePrecomputed
    \/ WritesStoreCanonical
    \/ WritesDelete

SpecWrites == InitWrites /\ [][NextWrites]_vars

\* C34: with CACHE_FAIL_OPEN true, a call of store_precomputed_response,
\* store_canonical_response or delete_precomputed_response during which the
\* adapter raised on a cache write (payload key, query->slug key or index
\* key) returns normally; with fail-open false the error leaves the call.
C34_FailOpenWritesSwallowed ==
    http.hit => (http.st = "ok" <=> cfg.CACHE_FAIL_OPEN)


(***************************************************************************)
(* SpecSlugs: the catalogue's service calls with slugs and queries chosen  *)
(* freely, the adapter answering every call.  reference keeps, for each    *)
(* canonical query, the response most recently stored together with it;    *)
(* http keeps the slug of a delete and the query and outcome of a lookup.  *)
(***************************************************************************)
SlugNames == {"s1", "s2"}

\* two spellings of one query, and another query
SlugQueries == {<<"a">>, <<"A">>, <<"b">>}

\* the queries responses are stored with
SlugStoreQueries == {<<"A">>, <<"b">>}

SlugResponses == {SearchResponse(<<"a">>, count) : count \in {1, 2}}

\* the response of the canonical stores
SlugPinned == SearchResponse(<<"a">>, 2)

InitSlugs ==
    /\ cfg = Config(TRUE, TRUE, FALSE, "kv")
    /\ jobs = EmptyMap
    /\ timelines = EmptyMap
    /\ streams = EmptyMap
    /\ cache = EmptyMap
    /\ clock = 1
    /\ tasks = <<>>
    /\ http = [op |-> "none", slug |-> "", query |-> <<>>, kind |-> "miss",
               response |-> NoResult]
    /\ sse = NoSse
    /\ reference = EmptyMap

SlugsStorePrecomputed ==
    \E slug \in SlugNames, query \in SlugStoreQueries, response \in SlugResponses :
        /\ cache' = store_precomputed_response(cache, slug, query, response)
        /\ reference' = Put(reference, canonicalize_query(query), response)
        /\ http' = [op |-> "store_precomputed_response", slug |-> "", query |-> <<>>,
                    kind |-> "miss", response |-> NoResult]
        /\ UNCHANGED <<cfg, jobs, timelines, streams, clock, tasks, sse>>

SlugsStoreCanonical ==
    \E slug \in SlugNames, query \in SlugStoreQueries, response \in {SlugPinned} :
        /\ cache' = store_canonical_response(cache, slug, query, response)
        /\ reference' = Put(reference, canonicalize_query(query), response)
        /\ http' = [op |-> "store_canonical_response", slug |-> "", query |-> <<>>,
                    kind |-> "miss", response |-> NoResult]
        /\ UNCHANGED <<cfg, jobs, timelines, streams, clock, tasks, sse>>

SlugsDelete ==
    \E slug \in SlugNames :
        /\ cache' = delete_precomputed_response(cfg, cache, slug, <<>>).c
        /\ http' = [op |-> "delete_precomputed_response", slug |-> slug, query |-> <<>>,
                    kind |-> "miss", response |-> NoResult]
        /\ UNCHANGED <<cfg, jobs, timelines, streams, clock, tasks, sse, reference>>

SlugsLookup ==
    \E query \in SlugQueries :
        LET found == get_precomputed_response(cfg, cache, query, {})
        IN  /\ http' = [op |-> "get_precomputed_response", slug |-> "", query |-> query,
                        kind |-> found.kind, response |-> found.response]
            /\ UNCHANGED <<cfg, jobs, timelines, streams, cache, clock, tasks, sse,
                           reference>>

NextSlugs ==
    \/ SlugsStorePrecomputed
    \/ SlugsStoreCanonical
    \/ SlugsDelete
    \/ SlugsLookup

SpecSlugs == InitSlugs /\ [][NextSlugs]_vars

\* C35: whenever get_precomputed_response(q) returns a response, it is the
\* response most recently stored together with a query whose canonical form
\* is that of q.
C35_LookupSound ==
    (http.op = "get_precomputed_response" /\ http.kind = "hit")
        => /\ canonicalize_query(http.query) \in DOMAIN reference
           /\ http.response = reference[canonicalize_query(http.query)]


\* the slug under key in c, "" when the key is absent
SlugUnder(c, key) == IF key \in DOMAIN c THEN c[key].text ELSE ""

\* the slug through which get_precomputed_response(query) finds its payload
\* in c: the canonical mapping when its payload is there, or else the
\* precomputed mapping; "" when neither leads to a payload
ResolvedThrough(c, query) ==
    LET canonical_slug == SlugUnder(c, build_canonical_query_key(query))
        slug == SlugUnder(c, build_precomputed_query_key(query))
    IN  IF canonical_slug # "" /\ build_canonical_payload_key(canonical_slug) \in DOMAIN c
        THEN canonical_slug
        ELSE IF slug # "" /\ build_precomputed_payload_key(slug) \in DOMAIN c
        THEN slug
        ELSE ""

\* the value under key is the same in c and d, or absent in both
SameUnder(c, d, key) ==
    /\ key \in DOMAIN c <=> key \in DOMAIN d
    /\ key \in DOMAIN c => c[key] = d[key]

\* C38: delete_precomputed_response(s) affects only slug s: every query that
\* the lookup resolved through another slug before the call gets the same
\* response after it, and the index entries, the payload keys and the
\* query->slug keys of every other slug are unchanged, also when another
\* slug was stored with the canonical query of s.
C38_DeleteFrame ==
    [][http'.op = "delete_precomputed_response"
          => /\ \A query \in SlugQueries :
                    ResolvedThrough(cache, query) \notin {"", http'.slug}
                        => get_precomputed_response(cfg, cache', query, {})
                               = get_precomputed_response(cfg, cache, query, {})
             /\ \A slug \in SlugNames \ {http'.slug} :
                    /\ SameUnder(cache, cache', build_precomputed_payload_key(slug))
                    /\ SameUnder(cache, cache', build_canonical_payload_key(slug))
                    /\ slug \in DOMAIN list_precomputed_responses(cfg, cache)
                           => /\ slug \in DOMAIN list_precomputed_responses(cfg, cache')
                              /\ list_precomputed_responses(cfg, cache')[slug]
                                     = list_precomputed_responses(cfg, cache)[slug]
             /\ \A query \in SlugQueries :
                    /\ SlugUnder(cache, build_precomputed_query_key(query))
                           \notin {"", http'.slug}
                           => SameUnder(cache, cache', build_precomputed_query_key(query))
                    /\ SlugUnder(cache, build_canonical_query_key(query))
                           \notin {"", http'.slug}
                           => SameUnder(cache, cache', build_canonical_query_key(query))]_vars


(***************************************************************************)
(* SpecConcurrent: store_precomputed_response and store_canonical_response *)
(* called concurrently for distinct slugs over a remote adapter.  Each     *)
(* await of an adapter call is a suspension point, so a call is four       *)
(* steps: set the payload, set the query->slug key, load the index, write  *)
(* the index with the slug added.  tasks holds the calls; a call keeps the *)
(* index it has loaded until it writes it.                                 *)
(***************************************************************************)
MaxStores == 3

ConcurrentSlugs == {"s1", "s2", "s3"}

ConcurrentQuery == <<"a">>

ConcurrentResponse == SearchResponse(<<"a">>, 1)

StoreTiers == {"precomputed", "canonical"}

StoreCall(tier, slug) == [tier |-> tier, slug |-> slug, pc |-> "payload", index |-> EmptyMap]

PayloadKeyOf(call) ==
    IF call.tier = "precomputed" THEN build_precomputed_payload_key(call.slug)
    ELSE build_canonical_payload_key(call.slug)

QueryKeyOf(call) ==
    IF call.tier = "precomputed"
    THEN build_precomputed_query_key(canonicalize_query(ConcurrentQuery))
    ELSE build_canonical_query_key(canonicalize_query(ConcurrentQuery))

IndexKeyOf(call) ==
    IF call.tier = "precomputed" THEN build_precomputed_index_key
    ELSE build_canonical_index_key

InitConcurrent ==
    /\ cfg = Config(TRUE, TRUE, FALSE, "kv")
    /\ jobs = EmptyMap
    /\ timelines = EmptyMap
    /\ streams = EmptyMap
    /\ cache = EmptyMap
    /\ clock = 1
    /\ tasks = <<>>
    /\ http = NoHttp
    /\ sse = NoSse
    /\ reference = EmptyMap

\* a store is called for a slug no other call has been given
StoreBegin ==
    \E tier \in StoreTiers, slug \in ConcurrentSlugs :
        /\ Len(tasks) < MaxStores
        /\ \A t \in DOMAIN tasks : tasks[t].slug # slug
        /\ tasks' = Append(tasks, StoreCall(tier, slug))
        /\ UNCHANGED <<cfg, jobs, timelines, streams, cache, clock, http, sse, reference>>

\* await self.cache.set(payload_key, payload, ttl) / set_persistent
StoreSetPayload(t) ==
    /\ tasks[t].pc = "payload"
    /\ cache' = Put(cache, PayloadKeyOf(tasks[t]),
                    serialize_payload(_dump_response(ConcurrentResponse)))
    /\ tasks' = [tasks EXCEPT ![t].pc = "slug"]
    /\ UNCHANGED <<cfg, jobs, timelines, streams, clock, http, sse, reference>>

\* await self.cache.set(slug_key, slug.encode("utf-8"), ttl) / set_persistent
StoreSetSlug(t) ==
    /\ tasks[t].pc = "slug"
    /\ cache' = Put(cache, QueryKeyOf(tasks[t]), SlugBlob(tasks[t].slug))
    /\ tasks' = [tasks EXCEPT ![t].pc = "load"]
    /\ UNCHANGED <<cfg, jobs, timelines, streams, clock, http, sse, reference>>

\* index = await self._load_precomputed_index() / _load_canonical_index()
StoreLoadIndex(t) ==
    /\ tasks[t].pc = "load"
    /\ tasks' = [tasks EXCEPT ![t].pc = "write",
                              ![t].index = LoadIndex(cache, IndexKeyOf(tasks[t]))]
    /\ UNCHANGED <<cfg, jobs, timelines, streams, cache, clock, http, sse, reference>>

\* index[slug] = {...}; await self._write_precomputed_index(index, ttl) /
\* _write_canonical_index(index)
StoreWriteIndex(t) ==
    /\ tasks[t].pc = "write"
    /\ cache' = Put(cache, IndexKeyOf(tasks[t]),
                    serialize_payload(
                        Put(tasks[t].index, tasks[t].slug,
                            [query |-> canonicalize_query(ConcurrentQuery),
                             hash |-> QueryKeyOf(tasks[t])])))
    /\ tasks' = [tasks EXCEPT ![t].pc = "done"]
    /\ UNCHANGED <<cfg, jobs, timelines, streams, clock, http, sse, reference>>

NextConcurrent ==
    \/ StoreBegin
    \/ \E t \in DOMAIN tasks : StoreSetPayload(t)
    \/ \E t \in DOMAIN tasks : StoreSetSlug(t)
    \/ \E t \in DOMAIN tasks : StoreLoadIndex(t)
    \/ \E t \in DOMAIN tasks : StoreWriteIndex(t)

SpecConcurrent == InitConcurrent /\ [][NextConcurrent]_vars

\* C36: once all the concurrent store calls have returned, the index has an
\* entry for every slug stored: list_precomputed_responses lists them all.
C36_IndexComplete ==
    (\A t \in DOMAIN tasks : tasks[t].pc = "done")
        => \A t \in DOMAIN tasks :
               tasks[t].slug \in DOMAIN list_precomputed_responses(cfg, cache)


(***************************************************************************)
(* Overlapping submissions of one query_hash (Spec).                       *)
(***************************************************************************)
\* task t belongs to the most recently accepted submission of its hash
LatestOf(t) == \A u \in DOMAIN tasks : u > t => tasks[u].hash # tasks[t].hash

\* C37: once the background tasks of all submissions have finished, the
\* record of each query_hash has the status, result and error written by the
\* task of the most recently accepted submission of that hash; and a record
\* which that task has marked completed is not afterwards turned failed or
\* given another result by the task of an earlier submission.
C37_LatestSubmissionWins ==
    /\ [](\A t \in DOMAIN tasks :
             ((\A u \in DOMAIN tasks : tasks[u].pc = "done") /\ LatestOf(t))
                 => /\ tasks[t].hash \in DOMAIN jobs
                    /\ IF tasks[t].raised # None
                       THEN /\ jobs[tasks[t].hash].status = "failed"
                            /\ jobs[tasks[t].hash].error = tasks[t].raised
                       ELSE /\ jobs[tasks[t].hash].status = "completed"
                            /\ jobs[tasks[t].hash].error = None)
    /\ [][\A t \in DOMAIN tasks :
             (/\ LatestOf(t)
              /\ tasks[t].pc = "done"
              /\ tasks[t].marked
              /\ jobs[tasks[t].hash].status = "completed"
              /\ Len(tasks') = Len(tasks))
                 => /\ jobs'[tasks[t].hash].status = "completed"
                    /\ jobs'[tasks[t].hash].result = jobs[tasks[t].hash].result]_vars


(***************************************************************************)
(* SpecResubmit: one SSE client of GET /timeline/{hash} that stays         *)
(* connected while events are published to its hash and the timeline of    *)
(* the hash is cleared by re-submissions, on the in-memory bus.  reference *)
(* counts the events published and keeps the stream ids of the events the  *)
(* clears have removed.                                                    *)
(***************************************************************************)
MaxResubmitPublishes == 4

InitResubmit ==
    /\ cfg = Config(TRUE, TRUE, FALSE, "memory")
    /\ jobs = EmptyMap
    /\ timelines = EmptyMap
    /\ streams = EmptyMap
    /\ cache = EmptyMap
    /\ clock = 1
    /\ tasks = <<>>
    /\ http = NoHttp
    /\ sse = SseOpened(SseHash, TIMELINE_BATCH_SIZE)
    /\ reference = [published |-> 0, cleared |-> {}]

\* a job publishes an event; its event_id (uuid4) is new
ResubmitPublish ==
    /\ reference.published < MaxResubmitPublishes
    /\ \E out \in {publish_timeline_event(cfg.adapter, streams, timelines, SseHash,
                                          BaseEvent(reference.published + 1,
                                                    "search.cache.miss", NoPayload, 0, FALSE),
                                          clock, "none")} :
         /\ streams' = out.st
         /\ timelines' = out.tl
         /\ http' = [op |-> "publish", hash |-> SseHash, event |-> out.event]
    /\ reference' = [reference EXCEPT !.published = @ + 1]
    /\ UNCHANGED <<cfg, jobs, cache, clock, tasks, sse>>

\* submit_search: await clear_timeline(adapter, query_hash)
ResubmitClear ==
    /\ \E out \in {clear_timeline(cfg.adapter, streams, timelines, SseHash, FALSE)} :
         /\ streams' = out.st
         /\ timelines' = out.tl
    /\ http' = [op |-> "clear", hash |-> SseHash]
    /\ reference' = [reference EXCEPT
                        !.cleared = @ \cup {EventsOf(timelines, SseHash)[i].stream_id :
                                               i \in DOMAIN EventsOf(timelines, SseHash)}]
    /\ UNCHANGED <<cfg, jobs, cache, clock, tasks, sse>>

\* the generator reads and yields what it has read
ResubmitPoll == SsePoll(FALSE)

NextResubmit ==
    \/ ResubmitPublish
    \/ ResubmitClear
    \/ ResubmitPoll
    \/ Tick

SpecResubmit == InitResubmit /\ [][NextResubmit]_vars

\* C39: every event published after a clear has a (millis, seq) stream id
\* strictly greater than that of every event published before the clear,
\* whether or not the clock has advanced; so the consumer, whose last_id is
\* the stream id of an event it has received, has passed no event of the
\* timeline that it has not received.
C39_IdsGrowAcrossClear ==
    /\ \A i \in DOMAIN EventsOf(timelines, SseHash) : \A before \in reference.cleared :
           TupleGreater(_parse_stream_id(EventsOf(timelines, SseHash)[i].stream_id),
                        _parse_stream_id(before))
    /\ sse.last_id # <<>>
           => \A i \in DOMAIN EventsOf(timelines, SseHash) :
                  LET e == EventsOf(timelines, SseHash)[i]
                  IN  ~TupleGreater(_parse_stream_id(e.stream_id),
                                    _parse_stream_id(sse.last_id))
                          => e.event_id \in sse.received


(***************************************************************************)
(* SpecKeys: submissions over the range of products_k and                  *)
(* reviews_per_product the request schema admits, by users and guests,     *)
(* each followed by its job storing the response under the per-request     *)
(* key of search_products.                                                 *)
(***************************************************************************)
MaxKeySubmits == 2

\* products_k is 1..50 and reviews_per_product 0..25: the ends and a value
\* between them
KeyRequests ==
    {Request(query, products_k, reviews_per_product, guest,
             IF guest THEN "g1" ELSE "u1", <<>>, FALSE) :
        query \in {<<"a">>, <<"A">>}, products_k \in {1, 3, 50},
        reviews_per_product \in {0, 3, 25}, guest \in BOOLEAN}

InitKeys ==
    /\ cfg = Config(TRUE, TRUE, TRUE, "memory")
    /\ jobs = EmptyMap
    /\ timelines = EmptyMap
    /\ streams = EmptyMap
    /\ cache = EmptyMap
    /\ clock = 1
    /\ tasks = <<>>
    /\ http = NoHttp
    /\ sse = NoSse
    /\ reference = EmptyMap

KeysSubmit == \E req \in KeyRequests : Submit(req, MaxKeySubmits)

\* the job of the submission runs search_products to the store of its
\* response and marks the job completed
KeysStore(t) ==
    /\ tasks[t].pc = "start"
    /\ cache' = StoreFresh(cfg, cache, tasks[t].req, FALSE).c
    /\ jobs' = mark_completed(jobs, tasks[t].hash,
                              _dump_response(BuiltResponse(tasks[t].req.query)), clock)
    /\ tasks' = [tasks EXCEPT ![t].pc = "done", ![t].path = "fresh", ![t].marked = TRUE]
    /\ UNCHANGED <<cfg, timelines, streams, clock, http, sse, reference>>

NextKeys ==
    \/ KeysSubmit
    \/ \E t \in DOMAIN tasks : KeysStore(t)

SpecKeys == InitKeys /\ [][NextKeys]_vars

\* C40: for every accepted submission, the cache key the result endpoint's
\* fallback recomputes from the query and metadata of the job record equals
\* the key under which the orchestrator stored the submission's response.
C40_FallbackKeyMatches ==
    \A t \in DOMAIN tasks :
        tasks[t].pc = "done"
            => /\ ResponseCacheKey(tasks[t].req) \in DOMAIN cache
               /\ LoadCacheKey(jobs[tasks[t].hash].query, jobs[tasks[t].hash].metadata)
                      = ResponseCacheKey(tasks[t].req)

=============================================================================
